---- MODULE Spec2Model ----
(***************************************************************************)
(* Verification model of the Olivetum proof-of-work engine and its        *)
(* on-chain economic policy (consensus/olivetumhash, core, params).       *)
(*                                                                         *)
(* The module holds one state machine per component.  Each component has   *)
(* its own variables, initial predicate, actions and specification; a      *)
(* component's specification leaves the other components' variables at     *)
(* their idle value.                                                       *)
(*                                                                         *)
(* math/big values (difficulties, wei amounts, 256-bit digests) do not fit *)
(* TLC's machine integers: they are modelled as arbitrary-precision        *)
(* naturals, little-endian sequences of limbs in radix Base without        *)
(* leading zero limbs.                                                     *)
(***************************************************************************)
EXTENDS Integers, Sequences, FiniteSets, Bags, TLC

(***************************************************************************)
(* Arbitrary-precision naturals (math/big.Int restricted to values >= 0).  *)
(***************************************************************************)
HalfBase == 10 * 10
Base == HalfBase * HalfBase

BigZero == << >>

RECURSIVE BigNorm(_)
BigNorm(a) ==
    IF a = << >> THEN << >>
    ELSE IF a[Len(a)] = 0 THEN BigNorm(SubSeq(a, 1, Len(a) - 1))
    ELSE a

RECURSIVE FromNat(_)
FromNat(n) ==
    IF n = 0 THEN << >> ELSE << n % Base >> \o FromNat(n \div Base)

BigIsZero(a) == a = << >>

RECURSIVE BigCmpFrom(_, _, _)
BigCmpFrom(a, b, i) ==
    IF i = 0 THEN 0
    ELSE IF a[i] < b[i] THEN -1
    ELSE IF a[i] > b[i] THEN 1
    ELSE BigCmpFrom(a, b, i - 1)

\* big.Int.Cmp: -1, 0 or 1.
BigCmp(a, b) ==
    IF Len(a) < Len(b) THEN -1
    ELSE IF Len(a) > Len(b) THEN 1
    ELSE BigCmpFrom(a, b, Len(a))

BigLt(a, b) == BigCmp(a, b) < 0
BigLe(a, b) == BigCmp(a, b) <= 0

BigLimb(a, i) == IF i <= Len(a) THEN a[i] ELSE 0

RECURSIVE BigAddFrom(_, _, _, _)
BigAddFrom(a, b, i, carry) ==
    IF i > Len(a) /\ i > Len(b)
    THEN (IF carry = 0 THEN << >> ELSE << carry >>)
    ELSE LET s == BigLimb(a, i) + BigLimb(b, i) + carry
         IN  << s % Base >> \o BigAddFrom(a, b, i + 1, s \div Base)

\* big.Int.Add.
BigAdd(a, b) == BigAddFrom(a, b, 1, 0)

RECURSIVE BigSubFrom(_, _, _, _)
BigSubFrom(a, b, i, borrow) ==
    IF i > Len(a) THEN << >>
    ELSE LET s == a[i] - BigLimb(b, i) - borrow
         IN  IF s < 0
             THEN << s + Base >> \o BigSubFrom(a, b, i + 1, 1)
             ELSE << s >> \o BigSubFrom(a, b, i + 1, 0)

\* big.Int.Sub for a >= b (the callers test the sign first).
BigSub(a, b) == BigNorm(BigSubFrom(a, b, 1, 0))

RECURSIVE BigMulFrom(_, _, _, _)
BigMulFrom(a, m, i, carry) ==
    IF i > Len(a) THEN FromNat(carry)
    ELSE LET s == a[i] * m + carry
         IN  << s % Base >> \o BigMulFrom(a, m, i + 1, s \div Base)

\* big.Int.Mul by a machine-word factor 0 <= m < 2^17.
BigMulSmall(a, m) == IF m = 0 THEN << >> ELSE BigNorm(BigMulFrom(a, m, 1, 0))

\* Long division, two half-limb steps per limb so that rem * HalfBase stays
\* a machine integer for divisors up to 2^24.
RECURSIVE BigDivFrom(_, _, _, _)
BigDivFrom(a, d, i, rem) ==
    IF i = 0 THEN << >>
    ELSE LET hi == rem * HalfBase + (a[i] \div HalfBase)
             lo == (hi % d) * HalfBase + (a[i] % HalfBase)
         IN  BigDivFrom(a, d, i - 1, lo % d)
                 \o << (hi \div d) * HalfBase + (lo \div d) >>

\* big.Int.Div (floor) by a machine-word divisor 1 <= d < 2^24.
BigDivSmall(a, d) == BigNorm(BigDivFrom(a, d, Len(a), 0))

\* big.Int.Exp for a machine-word base.
RECURSIVE BigPow(_, _)
BigPow(b, n) == IF n = 0 THEN FromNat(1) ELSE BigMulSmall(BigPow(b, n - 1), b)

BigMax(a, b) == IF BigLt(a, b) THEN b ELSE a
BigMin(a, b) == IF BigLt(b, a) THEN b ELSE a

(***************************************************************************)
(* Program constants.                                                      *)
(***************************************************************************)
\* vars.MinimumDifficulty (package params/vars).
MinimumDifficulty == 131072

\* consensus.go: legacy clamps.
maxDifficultyIncreaseFactor == 2
maxDifficultyDecreaseDivisor == 16

\* params: fork heights and post-fork tuning (nil heights are NilBlock).
NilBlock == 0 - 1
difficultyForkBlock == 57900
difficultyEtcForkBlock == 61500
difficultyEtcStepForkBlock == 76000
difficultyPostForkMaxIncreaseNum == 3
difficultyPostForkMaxIncreaseDen == 2
difficultyPostForkMaxDecreaseDiv == 4096
difficultyMinTimestampNum == 1
difficultyMinTimestampDen == 6
difficultyGapDropSeconds == 60
difficultyGapDropMaxDivisor == 65536
difficultyStepDropStartSeconds == 120
difficultyStepDropIntervalSeconds == 60
difficultyStepDropBps == 200
difficultyStepDropMaxBps == 5000
bpsDenominator == 10000
etcDivisor == 2048
etcMinFactor == 0 - 99

\* consensus.go: header timestamps may run this far ahead of the wall clock;
\* the largest 256-bit value.
allowedFutureBlockTimeSeconds == 15
maxUint256 == BigSub(BigPow(65536, 16), FromNat(1))

\* params: runtime block period, default and largest decodable value.
defaultPeriod == 15
maxBlockPeriod == 60

\* params: block reward schedule and supply cap, in wei.
Ether == BigPow(10, 18)
rewardBaseWei == BigMulSmall(Ether, 12)
rewardFloorWei == BigDivSmall(BigMulSmall(Ether, 375), 1000)
maxSupplyWei == BigMulSmall(BigMulSmall(Ether, 50000), 10000)
rewardForkBlock == 0
RewardHalvingInterval == 8409600

\* consensus.go / core: burn rate and miner tip share, in basis points.
defaultBurnRate == 50
burnDenominator == 10000
MinerBurnShareBps == 25
burnOptions == << 50, 100, 150, 200, 250, 300 >>

\* core: a holding qualifies for dividends after 30 days.
dividendQualify == 30 * 24 * 60 * 60

(***************************************************************************)
(* Bounds of the model.                                                    *)
(***************************************************************************)
\* Blocks appended to the chain in one behaviour.
MaxInserts == 1
\* Blocks whose rewards are applied, and dividend-claim tips minted within
\* one block, in one behaviour.
MaxBlocks == 2
MaxTips == 1
\* Mining threads of one Seal call, largest nonce of the (wrapping) nonce
\* space, and wall-clock ticks in one behaviour.
NumThreads == 1
MaxNonce == 1
MaxTicks == 1
MaxResults == 2
MaxChain == 2
MaxBatch == 2
MaxHalvings == 7
MaxCalls == 2
MaxEvents == 4
MaxUpdates == 3
MaxSpends == 2
MaxTxEvents == 3
MaxDivEvents == 3
MaxEcoEvents == 3
MaxHoldEvents == 3
MaxRemoteEvents == 3
MaxPayloadLen == 9
MaxMirrorEvents == 3

(***************************************************************************)
(* State.                                                                  *)
(***************************************************************************)
VARIABLES
    \* -- difficulty controller --
    parent,                       \* chain head: [number, time, difficulty]
    currentPeriod,                \* params.currentPeriod
    storedPeriod,                 \* period the chain stores for the head, 0 = none
    difficultyLiveDropForkBlock,  \* params.difficultyLiveDropForkBlock
    inserted,                     \* blocks appended so far
    calc,                         \* last CalcDifficulty call on the head
    \* -- reward pipeline --
    totalMinted,                  \* RewardVault slot 0x0c
    burnRate,                     \* BurnContract slot 0, 0 = never set
    balance,                      \* balance of the coinbase account
    otherBalance,                 \* balance of an account that is not the coinbase
    holding,                      \* coinbase holdings: held, holdingTime, recent
    header,                       \* block being processed: [number, time]
    blocks,                       \* blocks finalized so far
    tips,                         \* tips minted in the current block
    last,                         \* what the last mint operation did
    \* -- sealer and verifier --
    exitCh, resultsCap, fakeFull,                     \* engine built by NewFaker
    wallClock,                    \* time.Now(), seconds
    ticks,                        \* clock ticks so far
    oracle,                       \* the hash: nonce -> kind of final digest
    work,                         \* header handed to Seal
    hashes,                       \* the hash on work's seal hash: nonce -> seal
    mineTarget,                   \* target handed to the mining threads
    sealPc,                       \* "idle", "prepared", "sealing"
    threadPc,                     \* per mining thread: "off", "hash", "wait", "exit"
    threadNonce,                  \* per mining thread: nonce under test
    found,                        \* channel found, capacity 1
    deliverPc,                    \* delivery goroutine: "off", "select", "exit"
    stop,                         \* channel stop closed
    abort,                        \* channel abort closed
    remote,                       \* remote sealer: current work package
    results,                      \* channel results: the block last sent on it
    \* -- block import on two nodes --
    chain,                        \* the blocks produced so far
    nodes,                        \* per node: clock, process-wide rate, ledger
    \* -- VerifyHeaders on a batch --
    vhHeaders,                    \* the headers handed to VerifyHeaders
    vhSeals,                      \* the seals slice handed with them
    vhPc,                         \* position of the verifier goroutine
    vhIndex,                      \* its loop index i (from 1)
    vhNow,                        \* unixNow, read once for the batch
    vhErr,                        \* the result it is about to send
    vhResults,                    \* what has been sent on the results channel
    vhAbort,                      \* the abort channel is closed
    vhAbortAt,                    \* results sent when abort was closed, or -1
    \* -- rewardForBlock under a configured fork block --
    rewardStart,
    rewarded,
    \* -- epoch datasets in memory and in the disk cache --
    cacheDir,
    datasets,
    prefetching,
    diskCache,
    calls,
    returned,
    events,
    \* -- off-session budget of one sender --
    tzOffset,
    offLimit,
    budgetWindow,
    budgetSpent,
    budgetLog,
    \* -- transaction admission: rate limit, management access, payload --
    txRateLimit,
    offSessionTxRate,
    txRateEpoch,
    txUsage,
    headTime,
    admins,
    lastTx,
    txEvents,
    \* -- dividend rounds: one claimant, the coinbase and the supply counters --
    divLedger,
    divNow,
    divRate,
    divBurn,
    divMinted,
    divDividends,
    divCoinbase,
    divLast,
    divEvents,
    \* -- transfers and gas fees: burn split and counters --
    ecoFork,
    ecoShareFork,
    ecoNumber,
    ecoStored,
    ecoBalances,
    ecoTotals,
    ecoHolding,
    ecoLast,
    ecoEvents,
    \* -- dividend holdings of one address: mature bucket and queue slots --
    slots,
    holdClock,
    holdLog,
    \* -- remote sealer loop: stored works, current block, results channel --
    rsWorks,
    rsCurrent,
    rsResults,
    rsRegistered,
    rsChans,
    rsLast,
    rsEvents,
    \* -- management payload decoders: the payload and the last decoding --
    decData,
    decOut,
    \* -- runtime parameters: state slots and the process-wide mirror --
    pStore,
    pMirror,
    pWritten,
    pEpoch,
    pLast,
    pEvents

diffVars == << parent, currentPeriod, storedPeriod,
               difficultyLiveDropForkBlock, inserted, calc >>

supplyVars == << totalMinted, burnRate, balance, otherBalance, holding,
                 header, blocks,
                 tips, last >>

sealVars == << exitCh, resultsCap, fakeFull, wallClock, ticks, oracle, work, hashes,
               mineTarget, sealPc, threadPc,
               threadNonce, found, deliverPc, stop, abort, remote, results >>

importVars == << chain, nodes >>

verifyVars == << vhHeaders, vhSeals, vhPc, vhIndex, vhNow, vhErr, vhResults,
                vhAbort, vhAbortAt >>

rewardVars == << rewardStart, rewarded >>

datasetVars == << cacheDir, datasets, prefetching, diskCache, calls, returned, events >>

budgetVars == << tzOffset, offLimit, budgetWindow, budgetSpent, budgetLog >>

admissionVars == << txRateLimit, offSessionTxRate, txRateEpoch, txUsage, headTime, admins, lastTx, txEvents >>

dividendVars == << divLedger, divNow, divRate, divBurn, divMinted, divDividends, divCoinbase, divLast, divEvents >>

economyVars == << ecoFork, ecoShareFork, ecoNumber, ecoStored, ecoBalances, ecoTotals, ecoHolding, ecoLast, ecoEvents >>

holdingVars == << slots, holdClock, holdLog >>

remoteVars == << rsWorks, rsCurrent, rsResults, rsRegistered, rsChans, rsLast, rsEvents >>

decodeVars == << decData, decOut >>

mirrorVars == << pStore, pMirror, pWritten, pEpoch, pLast, pEvents >>

vars == << diffVars, supplyVars, sealVars, importVars, verifyVars, rewardVars, datasetVars, budgetVars, admissionVars, dividendVars, economyVars, holdingVars, remoteVars, decodeVars, mirrorVars >>

\* What the actions of one component leave alone.
notDiffVars == << supplyVars, sealVars, importVars, verifyVars, rewardVars, datasetVars, budgetVars, admissionVars, dividendVars, economyVars, holdingVars, remoteVars, decodeVars, mirrorVars >>
notSupplyVars == << diffVars, sealVars, importVars, verifyVars, rewardVars, datasetVars, budgetVars, admissionVars, dividendVars, economyVars, holdingVars, remoteVars, decodeVars, mirrorVars >>
notSealVars == << supplyVars, importVars, verifyVars, mirrorVars, decodeVars, remoteVars, holdingVars, economyVars, dividendVars, admissionVars, budgetVars, datasetVars, rewardVars, inserted, calc >>
notImportVars == << diffVars, supplyVars, sealVars, verifyVars, rewardVars, datasetVars, budgetVars, admissionVars, dividendVars, economyVars, holdingVars, remoteVars, decodeVars, mirrorVars >>
notVerifyVars == << diffVars, supplyVars, sealVars, importVars, rewardVars, datasetVars, budgetVars, admissionVars, dividendVars, economyVars, holdingVars, remoteVars, decodeVars, mirrorVars >>
notRewardVars == << diffVars, supplyVars, sealVars, importVars, verifyVars, datasetVars, budgetVars, admissionVars, dividendVars, economyVars, holdingVars, remoteVars, decodeVars, mirrorVars >>
notDatasetVars == << diffVars, supplyVars, sealVars, importVars, verifyVars, rewardVars, budgetVars, admissionVars, dividendVars, economyVars, holdingVars, remoteVars, decodeVars, mirrorVars >>
notBudgetVars == << diffVars, supplyVars, sealVars, importVars, verifyVars, rewardVars, datasetVars, admissionVars, dividendVars, economyVars, holdingVars, remoteVars, decodeVars, mirrorVars >>
notAdmissionVars == << diffVars, supplyVars, sealVars, importVars, verifyVars, rewardVars, datasetVars, budgetVars, dividendVars, economyVars, holdingVars, remoteVars, decodeVars, mirrorVars >>
notDividendVars == << diffVars, supplyVars, sealVars, importVars, verifyVars, rewardVars, datasetVars, budgetVars, admissionVars, economyVars, holdingVars, remoteVars, decodeVars, mirrorVars >>
notEconomyVars == << diffVars, supplyVars, sealVars, importVars, verifyVars, rewardVars, datasetVars, budgetVars, admissionVars, dividendVars, holdingVars, remoteVars, decodeVars, mirrorVars >>
notHoldingVars == << diffVars, supplyVars, sealVars, importVars, verifyVars, rewardVars, datasetVars, budgetVars, admissionVars, dividendVars, economyVars, remoteVars, decodeVars, mirrorVars >>
notRemoteVars == << diffVars, supplyVars, sealVars, importVars, verifyVars, rewardVars, datasetVars, budgetVars, admissionVars, dividendVars, economyVars, holdingVars, decodeVars, mirrorVars >>
notDecodeVars == << diffVars, supplyVars, sealVars, importVars, verifyVars, rewardVars, datasetVars, budgetVars, admissionVars, dividendVars, economyVars, holdingVars, remoteVars, mirrorVars >>
notMirrorVars == << diffVars, supplyVars, sealVars, importVars, verifyVars, rewardVars, datasetVars, budgetVars, admissionVars, dividendVars, economyVars, holdingVars, remoteVars, decodeVars >>

(***************************************************************************)
(* Difficulty controller (consensus.go CalcDifficulty and helpers).        *)
(***************************************************************************)
ForkActive(fork, number) ==
    IF fork = NilBlock THEN FALSE
    ELSE IF fork = 0 THEN TRUE
    ELSE number >= fork

IsAfterDifficultyFork(number) == ForkActive(difficultyForkBlock, number)
IsAfterDifficultyLiveDropFork(number) ==
    ForkActive(difficultyLiveDropForkBlock, number)
IsAfterDifficultyEtcFork(number) == ForkActive(difficultyEtcForkBlock, number)
IsAfterDifficultyEtcStepFork(number) ==
    ForkActive(difficultyEtcStepForkBlock, number)

\* resolveBlockPeriod for a non-nil parent: the period stored for the parent
\* when the chain provides one, else the runtime period, never 0.
resolveBlockPeriod ==
    IF storedPeriod # 0 THEN storedPeriod
    ELSE IF currentPeriod = 0 THEN 1
    ELSE currentPeriod

CeilDiv(a, b) == (a + b - 1) \div b

\* Mutant of minTimestampIncrement: the divisions round down.
minTimestampIncrement_Floor(period, postFork) ==
    IF postFork
    THEN LET den == IF difficultyMinTimestampDen = 0 THEN 1
                    ELSE difficultyMinTimestampDen
             min == (period * difficultyMinTimestampNum) \div den
         IN  IF min = 0 THEN 1 ELSE min
    ELSE LET min == period \div 6
         IN  IF min = 0 THEN 1 ELSE min

minTimestampIncrement(period, postFork) ==
    IF postFork
    THEN LET den == IF difficultyMinTimestampDen = 0 THEN 1
                    ELSE difficultyMinTimestampDen
             min == CeilDiv(period * difficultyMinTimestampNum, den)
         IN  IF min = 0 THEN 1 ELSE min
    ELSE LET min == (period + 5) \div 6
         IN  IF min = 0 THEN 1 ELSE min

\* candidate.Sign() == 0 => 1
ZeroToOne(c) == IF BigIsZero(c) THEN FromNat(1) ELSE c

\* Mutant of ClampMinimum: the final clamp is missing.
ClampMinimum_Missing(c) == c

\* candidate.Cmp(vars.MinimumDifficulty) < 0 => MinimumDifficulty
ClampMinimum(c) ==
    IF BigLt(c, FromNat(MinimumDifficulty)) THEN FromNat(MinimumDifficulty)
    ELSE c

\* Mutant of ParentDiff: a nil or zero parent difficulty is used as it is.
ParentDiff_Unchecked(difficulty) == difficulty

\* parentDiff: MinimumDifficulty when the parent's difficulty is nil or zero.
ParentDiff(difficulty) ==
    IF BigIsZero(difficulty) THEN FromNat(MinimumDifficulty) ELSE difficulty

\* Mutant of TimeDiff: the gap counts both end points.
TimeDiff_Inclusive(time, parentTime) ==
    IF time <= parentTime THEN 1 ELSE time - parentTime + 1

\* timeDiff: at least 1, also when the child is not after the parent.
TimeDiff(time, parentTime) ==
    IF time <= parentTime THEN 1
    ELSE IF time - parentTime < 1 THEN 1
    ELSE time - parentTime

calcEtcDifficulty(parentDiff, blockPeriod, timeDiff) ==
    LET target == IF blockPeriod = 0 THEN 1 ELSE blockPeriod
        raw    == 1 - (timeDiff \div target)
        factor == IF raw < etcMinFactor THEN etcMinFactor ELSE raw
        quot   == BigDivSmall(parentDiff, etcDivisor)
    IN  IF factor >= 0
        THEN ZeroToOne(BigAdd(parentDiff, BigMulSmall(quot, factor)))
        ELSE LET adj == BigMulSmall(quot, 0 - factor)
             IN  IF BigLe(parentDiff, adj) THEN FromNat(1)
                 ELSE BigSub(parentDiff, adj)

\* Mutant of StepDropFactorBp: the first step is not counted.
StepDropFactorBp_LateStep(timeDiff) ==
    LET steps == (timeDiff - difficultyStepDropStartSeconds)
                     \div difficultyStepDropIntervalSeconds
        total == steps * difficultyStepDropBps
    IN  bpsDenominator - (IF total > difficultyStepDropMaxBps
                          THEN difficultyStepDropMaxBps ELSE total)

\* Step fork: ETC-style base value scaled down in basis-point steps.
StepDropFactorBp(timeDiff) ==
    LET steps    == ((timeDiff - difficultyStepDropStartSeconds)
                        \div difficultyStepDropIntervalSeconds) + 1
        total    == steps * difficultyStepDropBps
        totalBps == IF difficultyStepDropMaxBps > 0
                       /\ total > difficultyStepDropMaxBps
                    THEN difficultyStepDropMaxBps ELSE total
        factorBp == bpsDenominator - totalBps
    IN  IF factorBp < 1 THEN 1 ELSE factorBp

CalcDifficultyEtcStep(parentDiff, blockPeriod, timeDiff) ==
    LET base == calcEtcDifficulty(parentDiff, blockPeriod, timeDiff)
        candidate ==
            IF /\ difficultyStepDropStartSeconds > 0
               /\ difficultyStepDropIntervalSeconds > 0
               /\ difficultyStepDropBps > 0
               /\ timeDiff >= difficultyStepDropStartSeconds
            THEN BigDivSmall(BigMulSmall(base, StepDropFactorBp(timeDiff)),
                             bpsDenominator)
            ELSE base
    IN  ClampMinimum(ZeroToOne(candidate))

\* gap-drop ratio: at least 1, at most difficultyGapDropMaxDivisor.
CapRatio(ratio) ==
    LET r == IF ratio = 0 THEN 1 ELSE ratio
    IN  IF difficultyGapDropMaxDivisor > 0 /\ r > difficultyGapDropMaxDivisor
        THEN difficultyGapDropMaxDivisor ELSE r

CalcDifficultyEtc(parentDiff, blockPeriod, timeDiff) ==
    LET gapSeconds == difficultyGapDropSeconds
        q == IF gapSeconds > 0 /\ timeDiff >= gapSeconds
             THEN LET n == CeilDiv(timeDiff, gapSeconds)
                  IN  (IF n < 1 THEN 1 ELSE n) * gapSeconds
             ELSE timeDiff
        base == calcEtcDifficulty(parentDiff, blockPeriod, q)
        candidate ==
            IF gapSeconds > 0 /\ q >= gapSeconds
            THEN BigDivSmall(base, CapRatio(CeilDiv(q, gapSeconds)))
            ELSE base
    IN  ClampMinimum(ZeroToOne(candidate))

\* Clamps in force for the child: legacy before the difficulty fork, the
\* configured post-fork values (each only when positive) from the fork on.
DifficultyClamps(nextNumber) ==
    LET postFork == IsAfterDifficultyFork(nextNumber)
    IN  [ incNum |-> IF postFork /\ difficultyPostForkMaxIncreaseNum > 0
                     THEN difficultyPostForkMaxIncreaseNum
                     ELSE maxDifficultyIncreaseFactor,
          incDen |-> IF postFork /\ difficultyPostForkMaxIncreaseDen > 0
                     THEN difficultyPostForkMaxIncreaseDen
                     ELSE 1,
          decDiv |-> IF postFork /\ difficultyPostForkMaxDecreaseDiv > 0
                     THEN difficultyPostForkMaxDecreaseDiv
                     ELSE maxDifficultyDecreaseDivisor,
          gapSeconds |-> IF postFork THEN difficultyGapDropSeconds ELSE 0 ]

upperBound(parentDiff, incNum, incDen) ==
    LET product == BigMulSmall(parentDiff, incNum)
    IN  ZeroToOne(IF incDen # 0 THEN BigDivSmall(product, incDen) ELSE product)

lowerBound(parentDiff, decDiv) == ZeroToOne(BigDivSmall(parentDiff, decDiv))

\* Mutant of ClampUpper: the upper clamp is missing.
ClampUpper_Missing(candidate, bound) == candidate

ClampUpper(candidate, bound) ==
    IF BigCmp(candidate, bound) > 0 THEN bound ELSE candidate

ClampLower(candidate, bound) ==
    IF BigLt(candidate, bound) THEN bound ELSE candidate

\* Legacy and post-original-fork rule: proportional value, optional gap drop,
\* then the clamps.
CalcDifficultyLegacy(parentDiff, blockPeriod, timeDiff, nextNumber) ==
    LET c == DifficultyClamps(nextNumber)
        liveDrop == IsAfterDifficultyLiveDropFork(nextNumber)
        base == ZeroToOne(BigDivSmall(BigMulSmall(parentDiff, blockPeriod),
                                      timeDiff))
        candidate ==
            IF c.gapSeconds > 0 /\ timeDiff >= c.gapSeconds
            THEN LET ratio == IF liveDrop
                              THEN CeilDiv(timeDiff, c.gapSeconds)
                              ELSE timeDiff \div c.gapSeconds
                 IN  ZeroToOne(BigDivSmall(parentDiff, CapRatio(ratio)))
            ELSE base
    IN  ClampMinimum(
            ClampLower(
                ClampUpper(candidate,
                           upperBound(parentDiff, c.incNum, c.incDen)),
                lowerBound(parentDiff, c.decDiv)))

CalcDifficulty(time, p) ==
    LET parentDiff  == ParentDiff(p.difficulty)
        timeDiff    == TimeDiff(time, p.time)
        blockPeriod == resolveBlockPeriod
        nextNumber  == p.number + 1
    IN  IF IsAfterDifficultyEtcStepFork(nextNumber)
        THEN CalcDifficultyEtcStep(parentDiff, blockPeriod, timeDiff)
        ELSE IF IsAfterDifficultyEtcFork(nextNumber)
        THEN CalcDifficultyEtc(parentDiff, blockPeriod, timeDiff)
        ELSE CalcDifficultyLegacy(parentDiff, blockPeriod, timeDiff,
                                  nextNumber)

DiffIdle ==
    /\ parent = [ number |-> 0, time |-> 0, difficulty |-> BigZero ]
    /\ currentPeriod = defaultPeriod /\ storedPeriod = 0
    /\ difficultyLiveDropForkBlock = NilBlock
    /\ inserted = 0
    /\ calc = [ called |-> FALSE, time |-> 0, result |-> BigZero ]

(***************************************************************************)
(* Idle values of the components a specification does not exercise.        *)
(***************************************************************************)
NoHolding == [ held |-> BigZero, holdingTime |-> 0, recent |-> << >> ]
NoMint == [ op |-> "none", before |-> BigZero, gross |-> BigZero,
            minted |-> BigZero, credited |-> BigZero ]

SupplyIdle ==
    /\ totalMinted = BigZero /\ burnRate = 0 /\ balance = BigZero
    /\ otherBalance = BigZero
    /\ holding = NoHolding /\ header = [ number |-> 0, time |-> 0 ]
    /\ blocks = 0 /\ tips = 0 /\ last = NoMint

Threads == 1..NumThreads
Nonces == 0..MaxNonce
EmptyHash == << >>
NoWork == [ number |-> 0, time |-> 0, difficulty |-> BigZero, nonce |-> 0,
            mixDigest |-> EmptyHash ]
NoHashes == [ n \in Nonces |-> [ mix |-> EmptyHash, digest |-> BigZero ] ]
NoRemote == [ currentBlock |-> NoWork, target |-> BigZero, results |-> FALSE ]

SealQuiet ==
    /\ ticks = 0
    /\ oracle = [ n \in Nonces |-> "miss" ]
    /\ work = NoWork /\ sealPc = "idle"
    /\ hashes = NoHashes /\ mineTarget = BigZero
    /\ threadPc = [ t \in Threads |-> "off" ]
    /\ threadNonce = [ t \in Threads |-> 0 ]
    /\ found = << >> /\ deliverPc = "off"
    /\ stop = FALSE /\ abort = FALSE
    /\ remote = NoRemote /\ results = << >>
    /\ exitCh = FALSE /\ resultsCap = 1

SealIdle == fakeFull = FALSE /\ wallClock = 0 /\ SealQuiet

NodeIds == { "A", "B" }
NoLedger == [ nonce |-> 0, lastDividend |-> 0, roundRate |-> 0,
              roundStart |-> 0, roundID |-> 0, claimedRound |-> 0,
              holding |-> NoHolding, balance |-> BigZero ]

ImportIdle ==
    /\ chain = << >>
    /\ nodes = [ n \in NodeIds |->
                  [ clock |-> 0, currentDividend |-> 0, fakeFull |-> FALSE,
                    state |-> NoLedger, receipts |-> << >> ] ]

VerifyIdle ==
    /\ vhHeaders = << >> /\ vhSeals = << >>
    /\ vhPc = "idle" /\ vhIndex = 0 /\ vhNow = 0 /\ vhErr = "nil"
    /\ vhResults = << >> /\ vhAbort = FALSE /\ vhAbortAt = 0 - 1

NoReward == [ called |-> FALSE, number |-> 0, reward |-> BigZero ]

RewardIdle == rewardStart = rewardForkBlock /\ rewarded = NoReward

maxCachedDatasets == 2

\* One epoch more than the memory is meant to hold.
Epochs == 0..maxCachedDatasets
NoData == << >>
NoFile == [ size |-> 0 - 1, data |-> NoData ]
NewCall(epoch, prefetch) ==
    [ pc |-> "check", epoch |-> epoch, prefetch |-> prefetch, data |-> NoData,
      source |-> "none", fileAtLoad |-> NoFile ]
NoReturn == [ called |-> FALSE, epoch |-> 0, data |-> NoData, source |-> "none" ]

DatasetIdle ==
    /\ cacheDir = FALSE
    /\ datasets = [ e \in Epochs |-> NoData ]
    /\ prefetching = { }
    /\ diskCache = [ e \in Epochs |-> NoFile ]
    /\ calls = EmptyBag
    /\ returned = NoReturn
    /\ events = 0

BudgetIdle ==
    /\ tzOffset = 0
    /\ offLimit = BigZero
    /\ budgetWindow = 0 /\ budgetSpent = BigZero
    /\ budgetLog = << >>

TxRateLimitDefault == 5
offSessionTxRateDefault == 2

\* The administrator every admin variable names by default, a key a test
\* installs as one of the administrators, and an ordinary account.
Senders == { "0x17a9", "key", "user" }
AdminRoles ==
    { "BurnAdmin", "DividendAdmin", "GasLimitAdmin", "PeriodAdmin",
      "MinTxAmountAdmin", "TxRateLimitAdmin", "OffSessionAdmin",
      "SessionTzAdmin" }
DefaultAdmins == [ r \in AdminRoles |-> "0x17a9" ]
NoUsage == [ Count |-> 0, Start |-> 0, Epoch |-> 0 ]
NoTx == [ err |-> "none" ]

AdmissionIdle ==
    /\ txRateLimit = TxRateLimitDefault
    /\ offSessionTxRate = offSessionTxRateDefault
    /\ txRateEpoch = 0
    /\ txUsage = [ a \in Senders |-> NoUsage ]
    /\ headTime = 0
    /\ admins = DefaultAdmins
    /\ lastTx = NoTx
    /\ txEvents = 0

NoClaim == [ op |-> "none" ]

DividendIdle ==
    /\ divLedger = NoLedger
    /\ divNow = 0
    /\ divRate = 50
    /\ divBurn = 0
    /\ divMinted = BigZero
    /\ divDividends = BigZero
    /\ divCoinbase = [ balance |-> BigZero, holding |-> NoHolding ]
    /\ divLast = NoClaim
    /\ divEvents = 0

NoTotals == [ totalBurned |-> BigZero, totalBurnedTransfers |-> BigZero,
              totalBurnedGas |-> BigZero, totalMinerBurnShare |-> BigZero ]

NoCharge == [ op |-> "none" ]

EconomyIdle ==
    /\ ecoFork = 0
    /\ ecoShareFork = 0
    /\ ecoNumber = 0
    /\ ecoStored = 0
    /\ ecoBalances = [ from |-> BigZero, to |-> BigZero, coinbase |-> BigZero ]
    /\ ecoTotals = NoTotals
    /\ ecoHolding = NoHolding
    /\ ecoLast = NoCharge
    /\ ecoEvents = 0

\* A cleared queue slot, and the holdings of an address the dividend code
\* has not seen: head = tail = 0 and every slot zero.
ZeroEntry == [ amt |-> 0, t |-> 0 ]
NoSlots == [ held |-> 0, holdingTime |-> 0, head |-> 0, tail |-> 0,
             entries |-> [ i \in 0 .. MaxHoldEvents |-> ZeroEntry ] ]

HoldingIdle ==
    /\ slots = NoSlots
    /\ holdClock = 0
    /\ holdLog = << >>

\* Results channels handed to Seal or returned by the work-for producer;
\* nil is the channel of a sealer that has no work yet.
Channels == { "ch1", "ch2" }
NoSubmit == [ op |-> "none" ]

RemoteIdle ==
    /\ rsWorks = { }
    /\ rsCurrent = NoWork
    /\ rsResults = "nil"
    /\ rsRegistered = << >>
    /\ rsChans = [ c \in Channels |-> << >> ]
    /\ rsLast = NoSubmit
    /\ rsEvents = 0

NoDecode == [ fn |-> "none" ]
DecodeIdle == decData = << >> /\ decOut = NoDecode

\* The runtime parameters, the state databases a process may load from (two
\* forks, or the states of two heads), and the mirror of a fresh process.
RuntimeParams ==
    { "BlockPeriod", "MinTxAmount", "TxRateLimit", "OffSessionTxRate",
      "OffSessionMaxPerTx", "SessionTzOffset" }
StateDBs == { "s1", "s2" }
NoLoad == [ op |-> "none" ]
EmptySlots == [ st \in StateDBs |-> [ x \in RuntimeParams |-> << >> ] ]
NothingWritten ==
    [ st \in StateDBs |-> [ x \in RuntimeParams |-> [ set |-> FALSE ] ] ]
DefaultMirror ==
    [ BlockPeriod |-> 15, MinTxAmount |-> << 0, 0, 0, 0, 1000 >>,
      TxRateLimit |-> 5, OffSessionTxRate |-> 2,
      OffSessionMaxPerTx |-> << 0, 0, 0, 0, 0, 100 >>, SessionTzOffset |-> 0 ]

MirrorIdle ==
    /\ pStore = EmptySlots
    /\ pMirror = DefaultMirror
    /\ pWritten = NothingWritten
    /\ pEpoch = [ st \in StateDBs |-> 0 ]
    /\ pLast = NoLoad
    /\ pEvents = 0

(***************************************************************************)
(* Difficulty specification: a chain head, the runtime configuration, and  *)
(* CalcDifficulty applied to candidate child timestamps.                   *)
(***************************************************************************)
\* Difficulties a genesis header may carry (nil/zero included) ...
GenesisDifficulties ==
    { BigZero, FromNat(1), FromNat(100000), FromNat(MinimumDifficulty - 1),
      FromNat(MinimumDifficulty), FromNat(8000000),
      BigMulSmall(FromNat(100000), 100000) }

\* ... and those an accepted non-genesis header carries: every one is a
\* CalcDifficulty result.
HeadDifficulties ==
    { FromNat(MinimumDifficulty), BigMulSmall(FromNat(100000), 100000) }

\* Heights of the initial head: genesis, and two blocks before each fork.
HeadNumbers ==
    { difficultyForkBlock - 2, difficultyEtcForkBlock - 2,
      difficultyEtcStepForkBlock - 2 }

\* Child timestamp offsets tried against the head (besides the period).
Gaps ==
    { 0, 1, 5, 15, 60, 61, 120, 180, 600, 6000, 300000, 4000000 }

NoCalc == [ called |-> FALSE, time |-> 0, result |-> BigZero ]

DiffInit ==
    /\ \/ /\ parent \in [ number : {0}, time : {0},
                          difficulty : GenesisDifficulties ]
       \/ /\ parent \in [ number : HeadNumbers, time : {100},
                          difficulty : HeadDifficulties ]
    /\ storedPeriod \in {0, 11}
    /\ currentPeriod \in (IF storedPeriod = 0 THEN 1..maxBlockPeriod
                          ELSE {defaultPeriod})
    /\ difficultyLiveDropForkBlock \in {NilBlock, 0}
    /\ inserted = 0
    /\ calc = NoCalc
    /\ SupplyIdle /\ SealIdle /\ ImportIdle /\ VerifyIdle /\ MirrorIdle /\ DecodeIdle /\ RemoteIdle /\ HoldingIdle /\ EconomyIdle /\ DividendIdle /\ AdmissionIdle /\ BudgetIdle /\ DatasetIdle /\ RewardIdle

\* engine.CalcDifficulty(chain, time, parent) on the head.
CalcDifficultyCall(gap) ==
    /\ calc' = [ called |-> TRUE, time |-> parent.time + gap,
                 result |-> CalcDifficulty(parent.time + gap, parent) ]
    /\ UNCHANGED << parent, currentPeriod, storedPeriod,
                    difficultyLiveDropForkBlock, inserted >>
    /\ UNCHANGED notDiffVars

\* Prepare on a header with requested timestamp req, then the block is
\* sealed and becomes the head.
InsertBlock(req) ==
    /\ inserted < MaxInserts
    /\ LET period   == resolveBlockPeriod
           minDelta == minTimestampIncrement(period,
                           IsAfterDifficultyFork(parent.number + 1))
           earliest == parent.time + minDelta
           time     == IF req < earliest THEN earliest ELSE req
       IN  parent' = [ number |-> parent.number + 1, time |-> time,
                       difficulty |-> CalcDifficulty(time, parent) ]
    /\ storedPeriod' = (IF storedPeriod = 0 THEN 0 ELSE currentPeriod)
    /\ inserted' = inserted + 1
    /\ calc' = NoCalc
    /\ UNCHANGED << currentPeriod, difficultyLiveDropForkBlock >>
    /\ UNCHANGED notDiffVars

DiffNext ==
    \/ \E gap \in Gaps \cup {resolveBlockPeriod} : CalcDifficultyCall(gap)
    \/ \E req \in {parent.time, parent.time + resolveBlockPeriod} :
           InsertBlock(req)

SpecDifficulty == DiffInit /\ [][DiffNext]_vars

(***************************************************************************)
(* Claims about the difficulty controller, checked under SpecDifficulty.   *)
(***************************************************************************)
\* The head and the recorded call, as the claims name them.
Gap == calc.time - parent.time
NextNumber == parent.number + 1
PreFork == ~IsAfterDifficultyFork(NextNumber)
PostOriginalFork ==
    IsAfterDifficultyFork(NextNumber) /\ ~IsAfterDifficultyEtcFork(NextNumber)
PostEtcFork ==
    IsAfterDifficultyEtcFork(NextNumber)
        /\ ~IsAfterDifficultyEtcStepFork(NextNumber)
PostStepFork == IsAfterDifficultyEtcStepFork(NextNumber)
AtMinimum(p) == [ p EXCEPT !.difficulty = FromNat(MinimumDifficulty) ]
SpecParentDiff == BigMax(parent.difficulty, FromNat(MinimumDifficulty))

\* C4 as stated: for every fork rule set, every parent difficulty and every
\* period, a child at exactly parent.time + P gets the parent's difficulty.
C4_ContinuityAnyParent ==
    (calc.called /\ Gap = resolveBlockPeriod)
        => calc.result = parent.difficulty

\* C4 amended: for every fork rule set, every parent difficulty that is at
\* least MinimumDifficulty and every period in 1..60, a child at exactly
\* parent.time + P gets CalcDifficulty equal to the parent's difficulty.
C4_Continuity ==
    (calc.called /\ Gap = resolveBlockPeriod
        /\ BigLe(FromNat(MinimumDifficulty), parent.difficulty))
        => calc.result = parent.difficulty

\* C4 witness: an on-period child after the step fork with the largest
\* period, which equals the gap-drop threshold.
C4_Witness ==
    /\ calc.called /\ Gap = resolveBlockPeriod
    /\ resolveBlockPeriod = maxBlockPeriod
    /\ PostStepFork
    /\ BigLt(FromNat(MinimumDifficulty), parent.difficulty)
    /\ calc.result = parent.difficulty

\* C5: CalcDifficulty never returns less than MinimumDifficulty, in every
\* branch, for every parent difficulty, gap and period; every header that
\* joins the chain therefore carries at least MinimumDifficulty.
C5_NeverBelowMinimum ==
    /\ calc.called => BigLe(FromNat(MinimumDifficulty), calc.result)
    /\ inserted > 0 => BigLe(FromNat(MinimumDifficulty), parent.difficulty)

\* C5 witness: a parent already at the minimum and a very late child.
C5_Witness ==
    /\ calc.called /\ Gap = 4000000
    /\ parent.difficulty = FromNat(MinimumDifficulty)
    /\ calc.result = FromNat(MinimumDifficulty)

C7_BelowMinimumAsMinimum ==
    (calc.called /\ BigLt(parent.difficulty, FromNat(MinimumDifficulty)))
        => calc.result = CalcDifficulty(calc.time, AtMinimum(parent))

\* C7 amended: only a nil or zero parent difficulty is replaced by
\* MinimumDifficulty and yields the same next difficulty as a parent with
\* exactly MinimumDifficulty; a positive difficulty below the minimum is
\* used as it is, and its next difficulty is at least MinimumDifficulty and
\* at most that of a parent at the minimum.
C7_ZeroAsMinimum ==
    calc.called =>
        LET atMin == CalcDifficulty(calc.time, AtMinimum(parent))
        IN  /\ BigIsZero(parent.difficulty) => calc.result = atMin
            /\ BigLt(parent.difficulty, FromNat(MinimumDifficulty)) =>
                   /\ BigLe(FromNat(MinimumDifficulty), calc.result)
                   /\ BigLe(calc.result, atMin)

\* C7 witness: a zero-difficulty parent and a fast child, whose difficulty
\* is twice the minimum.
C7_Witness ==
    /\ calc.called /\ BigIsZero(parent.difficulty)
    /\ resolveBlockPeriod = defaultPeriod /\ Gap = 5
    /\ calc.result = FromNat(2 * MinimumDifficulty)

\* C8: before the difficulty fork, with period 15 and parent difficulty
\* 8_000_000, CalcDifficulty gives 8_000_000 for a gap of 15, 24_000_000 for
\* 5, 2_000_000 for 60 and 1_000_000 for 600.
C8_LegacyScenario ==
    (calc.called /\ PreFork /\ resolveBlockPeriod = 15
        /\ parent.difficulty = FromNat(8000000)) =>
        /\ Gap = 15 => calc.result = FromNat(8000000)
        /\ Gap = 5 => calc.result = FromNat(24000000)
        /\ Gap = 60 => calc.result = FromNat(2000000)
        /\ Gap = 600 => calc.result = FromNat(1000000)

\* The step-fork value as C9 words it.
ClaimEtcStyle(pd, P, gap) ==
    LET raw    == 1 - (gap \div P)
        factor == IF raw < 0 - 99 THEN 0 - 99 ELSE raw
        quot   == BigDivSmall(pd, 2048)
        value  == IF factor >= 0 THEN BigAdd(pd, BigMulSmall(quot, factor))
                  ELSE IF BigLe(pd, BigMulSmall(quot, 0 - factor))
                  THEN BigZero
                  ELSE BigSub(pd, BigMulSmall(quot, 0 - factor))
    IN  BigMax(value, FromNat(1))

ClaimStepValue(pd, P, gap) ==
    IF gap >= 120
    THEN LET steps == ((gap - 120) \div 60) + 1
             drop  == IF steps * 200 > 5000 THEN 5000 ELSE steps * 200
         IN  BigDivSmall(BigMulSmall(ClaimEtcStyle(pd, P, gap), 10000 - drop),
                         10000)
    ELSE ClaimEtcStyle(pd, P, gap)

TenGiga == BigMulSmall(FromNat(100000), 100000)

\* The percentages of C9: at period 15 and parent 10_000_000_000 a gap of
\* 120 gives 96-99% of the parent, a gap of 180 gives 93-97%, and the
\* latter result is strictly smaller.
C9_Percentages ==
    (calc.called /\ PostStepFork /\ resolveBlockPeriod = 15
        /\ parent.difficulty = TenGiga) =>
        /\ Gap = 120 =>
               /\ BigLe(BigMulSmall(TenGiga, 96), BigMulSmall(calc.result, 100))
               /\ BigLe(BigMulSmall(calc.result, 100), BigMulSmall(TenGiga, 99))
               /\ BigLt(CalcDifficulty(parent.time + 180, parent), calc.result)
        /\ Gap = 180 =>
               /\ BigLe(BigMulSmall(TenGiga, 93), BigMulSmall(calc.result, 100))
               /\ BigLe(BigMulSmall(calc.result, 100), BigMulSmall(TenGiga, 97))

\* C9 as stated: from the step fork on the next difficulty is the ETC-style
\* value, scaled by the step drop when the gap reaches the start.
C9_StepFormulaUnclamped ==
    /\ (calc.called /\ PostStepFork) =>
           calc.result = ClaimStepValue(SpecParentDiff, resolveBlockPeriod,
                                        TimeDiff(calc.time, parent.time))
    /\ C9_Percentages

\* C9 amended: from the step fork on the next difficulty is that scaled
\* ETC-style value raised to at least MinimumDifficulty; the percentages for
\* period 15 and parent 10_000_000_000 hold as stated.
C9_StepFormula ==
    /\ (calc.called /\ PostStepFork) =>
           calc.result =
               BigMax(FromNat(MinimumDifficulty),
                      ClaimStepValue(SpecParentDiff, resolveBlockPeriod,
                                     TimeDiff(calc.time, parent.time)))
    /\ C9_Percentages

\* C9 witness: the 120-second gap of the scenario, two percent below the
\* ETC-style value.
C9_Witness ==
    /\ calc.called /\ PostStepFork /\ resolveBlockPeriod = 15
    /\ parent.difficulty = TenGiga /\ Gap = 120
    /\ calc.result = BigAdd(BigMulSmall(FromNat(97665), 100000), FromNat(3909))

(***************************************************************************)
(* Reward pipeline (consensus.go accumulateRewards, core                   *)
(* MintDividendClaimTip, core AddHolding).                                 *)
(***************************************************************************)
\* uint64 now-t >= dividendQualify; the subtraction wraps when now < t.
Qualified(now, t) == IF now < t THEN TRUE ELSE now - t >= dividendQualify

\* matureRecent from index i of h.recent on; upd counts the entries the head
\* pointer moves past (zero entries are cleared, but the head only moves
\* when an entry matures).
RECURSIVE matureScan(_, _, _, _)
matureScan(h, i, upd, now) ==
    IF i > Len(h.recent)
    THEN [ h EXCEPT !.recent = SubSeq(@, upd + 1, Len(@)) ]
    ELSE LET e == h.recent[i]
         IN  IF BigIsZero(e.amt)
             THEN matureScan([ h EXCEPT !.recent[i] =
                                   [ amt |-> BigZero, t |-> 0 ] ],
                             i + 1, upd, now)
             ELSE IF ~Qualified(now, e.t)
             THEN [ h EXCEPT !.recent = SubSeq(@, upd + 1, Len(@)) ]
             ELSE matureScan(
                      [ held |-> BigAdd(h.held, e.amt),
                        holdingTime |-> IF BigIsZero(h.held) THEN e.t
                                        ELSE h.holdingTime,
                        recent |-> [ h.recent EXCEPT ![i] =
                                       [ amt |-> BigZero, t |-> 0 ] ] ],
                      i + 1, i, now)

matureRecent(h, now) == matureScan(h, 1, 0, now)

AddHolding(h, amt, now) ==
    IF BigIsZero(amt) THEN h
    ELSE LET m == matureRecent(h, now)
         IN  [ m EXCEPT !.recent = Append(@, [ amt |-> amt, t |-> now ]) ]

RECURSIVE Halve(_, _)
Halve(reward, n) ==
    IF n = 0 THEN reward
    ELSE IF BigLe(reward, rewardFloorWei) THEN rewardFloorWei
    ELSE Halve(BigDivSmall(reward, 2), n - 1)

AtLeastFloor(reward) ==
    IF BigLt(reward, rewardFloorWei) THEN rewardFloorWei ELSE reward

\* Mutant of rewardForBlock: the fork block is taken as 0.
rewardForBlock_NoFork(number) ==
    AtLeastFloor(Halve(rewardBaseWei, number \div RewardHalvingInterval))

\* start := params.GetRewardForkBlock() is the process-wide rewardStart.
rewardForBlock(number) ==
    IF number < rewardStart THEN rewardBaseWei
    ELSE IF RewardHalvingInterval = 0 THEN AtLeastFloor(rewardBaseWei)
    ELSE AtLeastFloor(
             Halve(rewardBaseWei,
                   (number - rewardStart) \div RewardHalvingInterval))

readBurnRate(stored) == IF stored = 0 THEN defaultBurnRate ELSE stored

GetBurnRate(stored) == IF stored = 0 THEN burnOptions[1] ELSE stored

\* Mutant of computeRewardBurn: nothing is burned.
computeRewardBurn_None(amount, stored) == BigZero

computeRewardBurn(amount, stored) ==
    IF BigIsZero(amount) THEN BigZero
    ELSE LET rate == readBurnRate(stored)
             burn == BigDivSmall(BigMulSmall(amount, rate), burnDenominator)
         IN  IF rate = 0 THEN BigZero
             ELSE IF BigLt(amount, burn) THEN amount
             ELSE burn

\* Mutant of TrimToRemaining: the reward is not cut to the remaining supply.
TrimToRemaining_Missing(gross, remaining) == gross

\* gross.Cmp(remaining) > 0 => gross = remaining
TrimToRemaining(gross, remaining) ==
    IF BigLt(remaining, gross) THEN remaining ELSE gross

\* What one mint operation does to the state: the amount added to
\* totalMinted and the amount credited to the coinbase.
Nothing == [ minted |-> BigZero, credited |-> BigZero ]

accumulateRewards(minted, stored, number) ==
    LET gross == rewardForBlock(number)
    IN  IF BigIsZero(gross) THEN Nothing
        ELSE IF BigLe(maxSupplyWei, minted) THEN Nothing
        ELSE LET cut == TrimToRemaining(gross, BigSub(maxSupplyWei, minted))
             IN  IF BigIsZero(cut) THEN Nothing
                 ELSE [ minted |-> cut,
                        credited |->
                            BigSub(cut, computeRewardBurn(cut, stored)) ]

DividendClaimTip(dividendReward, stored) ==
    LET rate == GetBurnRate(stored)
        virtualBurn == BigDivSmall(BigMulSmall(dividendReward, rate),
                                   burnDenominator)
    IN  IF rate = 0 THEN BigZero
        ELSE BigDivSmall(BigMulSmall(virtualBurn, MinerBurnShareBps),
                         burnDenominator)

MintDividendClaimTip(minted, stored, dividendReward) ==
    LET tip == DividendClaimTip(dividendReward, stored)
    IN  IF BigIsZero(dividendReward) \/ BigIsZero(tip) THEN Nothing
        ELSE IF BigLe(maxSupplyWei, minted) THEN Nothing
        ELSE LET cut == IF BigLt(BigSub(maxSupplyWei, minted), tip)
                        THEN BigSub(maxSupplyWei, minted) ELSE tip
             IN  IF BigIsZero(cut) THEN Nothing
                 ELSE [ minted |-> cut, credited |-> cut ]

(***************************************************************************)
(* Reward specification: blocks are processed one after another; within a  *)
(* block dividend claims may mint tips, and finalizing the block applies   *)
(* its reward.                                                             *)
(***************************************************************************)
MintedAtStart ==
    { BigZero,
      BigSub(maxSupplyWei, BigMulSmall(Ether, 13)),
      BigSub(maxSupplyWei, rewardBaseWei),
      BigSub(maxSupplyWei, FromNat(1)),
      maxSupplyWei }

DividendRewards == { BigZero, FromNat(1000000), BigMulSmall(Ether, 4000) }

SupplyInit ==
    /\ totalMinted \in MintedAtStart
    /\ burnRate \in {0, burnOptions[Len(burnOptions)]}
    /\ balance = BigZero
    /\ otherBalance = Ether
    /\ holding = NoHolding
    /\ header \in [ number : {0, RewardHalvingInterval - 1,
                              5 * RewardHalvingInterval - 1},
                    time : {0} ]
    /\ blocks = 0 /\ tips = 0 /\ last = NoMint
    /\ DiffIdle /\ SealIdle /\ ImportIdle /\ VerifyIdle /\ MirrorIdle /\ DecodeIdle /\ RemoteIdle /\ HoldingIdle /\ EconomyIdle /\ DividendIdle /\ AdmissionIdle /\ BudgetIdle /\ DatasetIdle /\ RewardIdle

Credit(effect) ==
    /\ totalMinted' = BigAdd(totalMinted, effect.minted)
    /\ balance' = BigAdd(balance, effect.credited)
    /\ UNCHANGED otherBalance
    /\ holding' = IF BigIsZero(effect.minted) THEN holding
                  ELSE AddHolding(holding, effect.credited, header.time)

\* A dividend claim in the block mints the miner's tip.
ClaimTip(dividendReward) ==
    /\ blocks < MaxBlocks /\ tips < MaxTips
    /\ LET effect == MintDividendClaimTip(totalMinted, burnRate,
                                          dividendReward)
       IN  /\ Credit(effect)
           /\ last' = [ op |-> "tip", before |-> totalMinted,
                        gross |-> DividendClaimTip(dividendReward, burnRate),
                        minted |-> effect.minted,
                        credited |-> effect.credited ]
    /\ tips' = tips + 1
    /\ UNCHANGED << burnRate, header, blocks >>
    /\ UNCHANGED notSupplyVars

\* Finalize applies the block reward; processing moves on to the next block.
FinalizeBlock(step) ==
    /\ blocks < MaxBlocks
    /\ LET effect == accumulateRewards(totalMinted, burnRate, header.number)
       IN  /\ Credit(effect)
           /\ last' = [ op |-> "reward", before |-> totalMinted,
                        gross |-> rewardForBlock(header.number),
                        minted |-> effect.minted,
                        credited |-> effect.credited ]
    /\ header' = [ number |-> header.number + 1, time |-> header.time + step ]
    /\ blocks' = blocks + 1
    /\ tips' = 0
    /\ UNCHANGED burnRate
    /\ UNCHANGED notSupplyVars

SupplyNext ==
    \/ \E r \in DividendRewards : ClaimTip(r)
    \/ \E step \in {defaultPeriod, dividendQualify} : FinalizeBlock(step)

SpecSupply == SupplyInit /\ [][SupplyNext]_vars

(***************************************************************************)
(* Claims about the reward pipeline, checked under SpecSupply.             *)
(***************************************************************************)
\* The state part of C1, see below.
SupplyCapState ==
    /\ BigLe(totalMinted, maxSupplyWei)
    /\ (last.op = "reward"
           /\ BigLt(maxSupplyWei, BigAdd(last.before, last.gross)))
        => /\ last.minted = BigSub(maxSupplyWei, last.before)
           /\ totalMinted = maxSupplyWei
    /\ (last.op = "reward" /\ last.before = maxSupplyWei)
        => /\ last.minted = BigZero /\ last.credited = BigZero
           /\ totalMinted = maxSupplyWei

\* The step part of C1: once at the cap, no later step changes the minted
\* total, the coinbase balance or its holdings.
SupplyFrozenAtCap ==
    [][totalMinted = maxSupplyWei =>
           /\ totalMinted' = totalMinted /\ balance' = balance
           /\ holding' = holding]_vars

\* C1: totalMinted never exceeds the maximum supply, whatever the order of
\* block rewards and dividend-claim tips; the reward that would cross the
\* cap mints exactly the remaining supply; once the cap is reached every
\* later block mints nothing and credits nothing.
C1_SupplyCap == []SupplyCapState /\ SupplyFrozenAtCap

\* C1 witness: a reward cut to the one remaining wei reaches the cap, after
\* a block in which a tip was minted.
C1_Witness ==
    /\ last.op = "reward" /\ blocks = 2
    /\ BigLt(last.minted, last.gross)
    /\ BigLt(BigZero, last.minted)
    /\ totalMinted = maxSupplyWei
    /\ BigLt(rewardBaseWei, balance)

\* C14: when the gross reward g = min(rewardForBlock(n), MAX_SUPPLY -
\* totalMinted) of a block is positive, applying the block reward adds g to
\* totalMinted, credits the coinbase with exactly g - floor(g*rate/10000),
\* rate being the stored burn rate or 50 when the slot is zero, appends that
\* payout stamped with header.time at the tail of the coinbase's holding
\* queue, and changes no other account's balance.
C14_RewardFrame ==
    [][ (blocks' = blocks + 1 /\ BigLe(totalMinted, maxSupplyWei)) =>
          LET g      == BigMin(rewardForBlock(header.number),
                               BigSub(maxSupplyWei, totalMinted))
              rate   == IF burnRate = 0 THEN 50 ELSE burnRate
              payout == BigSub(g, BigDivSmall(BigMulSmall(g, rate), 10000))
              queue  == holding'.recent
          IN  ~BigIsZero(g) =>
                  /\ totalMinted' = BigAdd(totalMinted, g)
                  /\ balance' = BigAdd(balance, payout)
                  /\ Len(queue) > 0
                  /\ queue[Len(queue)] = [ amt |-> payout, t |-> header.time ]
                  /\ otherBalance' = otherBalance ]_vars

\* C14 witness: a reward cut to the remaining supply was paid out under a
\* stored burn rate, less than was minted, and queued.
C14_Witness ==
    /\ last.op = "reward" /\ burnRate # 0
    /\ BigLt(last.minted, last.gross)
    /\ BigLt(last.credited, last.minted)
    /\ BigLt(BigZero, last.credited)
    /\ Len(holding.recent) > 0
    /\ holding.recent[Len(holding.recent)].amt = last.credited
    /\ BigLe(last.credited, balance) /\ otherBalance = Ether

(***************************************************************************)
(* Sealing and seal verification.  A header is the record of the fields   *)
(* the engine reads: number, time, difficulty, nonce, mixDigest.  The     *)
(* hash itself is not computed: computeSeal is a fixed but arbitrary       *)
(* function of (seal hash, nonce).  oracle fixes, per nonce, whether the   *)
(* final digest is the largest value not above (2^256 - 1) / difficulty    *)
(* ("hit") or the value right above it ("miss"), the two digests at which  *)
(* any comparison against a target near that quotient changes its answer.  *)
(***************************************************************************)
RECURSIVE ToNat(_)
ToNat(a) == IF a = << >> THEN 0 ELSE Head(a) + Base * ToNat(Tail(a))

\* SealHash: the header without nonce and mix digest.
SealHash(h) == << h.difficulty, h.number, h.time >>

\* difficultyToTarget: maxUint256 / diff, zero for diff <= 0.
difficultyToTarget(diff) ==
    IF BigIsZero(diff) THEN BigZero
    ELSE BigDivSmall(maxUint256, ToNat(diff))

\* compareDigest: never within a zero target, else digest <= target with
\* the digest read as a big-endian 256-bit integer.
compareDigest(digest, target) ==
    IF BigIsZero(target) THEN FALSE ELSE BigLe(digest, target)

\* The hash on one seal hash, as oracle fixes it.
HashTable(headerHash) ==
    LET floor == BigDivSmall(maxUint256, ToNat(headerHash[1]))
        above == BigAdd(floor, FromNat(1))
    IN  [ n \in Nonces |->
            [ mix    |-> << headerHash, n >>,
              digest |-> IF oracle[n] = "hit" THEN floor ELSE above ] ]

\* computeSeal(headerHash, nonce): mix digest and final digest.
computeSeal(headerHash, nonce) ==
    IF headerHash = SealHash(work) THEN hashes[nonce]
    ELSE HashTable(headerHash)[nonce]

\* verifySeal: recompute the seal, compare mix and digest.
verifySeal(h) ==
    IF BigIsZero(h.difficulty) THEN "errInvalidPoW"
    ELSE LET seal == computeSeal(SealHash(h), h.nonce)
         IN  IF seal.mix # h.mixDigest THEN "errInvalidMixDigest"
             ELSE IF ~compareDigest(seal.digest,
                                    difficultyToTarget(h.difficulty))
                  THEN "errInvalidPoW"
             ELSE "nil"

\* verifyHeader(chain, h, p, uncle = false, seal, unixNow) against parent p.
verifyHeader(h, p, seal, unixNow) ==
    LET blockPeriod == resolveBlockPeriod
        minDelta    == minTimestampIncrement(blockPeriod,
                           IsAfterDifficultyFork(h.number))
    IN  IF h.time > unixNow + allowedFutureBlockTimeSeconds
            THEN "ErrFutureBlock"
        ELSE IF h.time <= p.time THEN "errOlderBlockTime"
        ELSE IF h.time - p.time < minDelta
            THEN "errTimestampTooClose"
        ELSE IF CalcDifficulty(h.time, p) # h.difficulty
            THEN "invalid difficulty"
        ELSE IF h.number - p.number # 1 THEN "ErrInvalidNumber"
        ELSE IF fakeFull THEN "nil"
        ELSE IF ~seal THEN "nil"
        ELSE verifySeal(h)

\* VerifyHeader(chain, h, seal): the header is not yet in the chain and
\* its parent is the head.
VerifyHeader(h, seal) ==
    IF fakeFull THEN "nil" ELSE verifyHeader(h, parent, seal, wallClock)

\* block.WithSeal: the block with the nonce and mix digest of a found seal.
WithSeal_NonceOnly(h, nonce, mix) ==
    [ h EXCEPT !.nonce = nonce ]

WithSeal(h, nonce, mix) ==
    [ h EXCEPT !.nonce = nonce, !.mixDigest = mix ]

\* sealer.go makeWork: the work package published for the block.
makeWork(block) ==
    [ currentBlock |-> block,
      target       |-> BigDivSmall(maxUint256, ToNat(block.difficulty)),
      results      |-> TRUE ]

(***************************************************************************)
(* Sealing specification: one header is prepared on the chain head and     *)
(* handed to Seal; local threads and a remote miner search a nonce; the    *)
(* receiver of the results channel verifies what it is handed.             *)
(***************************************************************************)
SealHeads ==
    { [ number |-> 0, time |-> 100,
        difficulty |-> FromNat(MinimumDifficulty) ] }

\* The state Seal starts from, whatever the receiver of results does.
SealStart ==
    /\ parent \in SealHeads
    /\ storedPeriod = 0
    /\ currentPeriod \in {defaultPeriod, maxBlockPeriod}
    /\ difficultyLiveDropForkBlock = NilBlock
    /\ inserted = 0
    /\ calc = NoCalc
    /\ fakeFull \in BOOLEAN
    /\ wallClock \in {parent.time - 10, parent.time}
    /\ ticks = 0
    /\ oracle \in [ Nonces -> {"hit", "miss"} ]
    /\ work = NoWork /\ sealPc = "idle"
    /\ hashes = NoHashes /\ mineTarget = BigZero
    /\ threadPc = [ t \in Threads |-> "off" ]
    /\ threadNonce = [ t \in Threads |-> 0 ]
    /\ found = << >> /\ deliverPc = "off"
    /\ stop = FALSE /\ abort = FALSE
    /\ remote = NoRemote /\ results = << >>
    /\ exitCh = FALSE
    /\ SupplyIdle /\ ImportIdle /\ VerifyIdle /\ MirrorIdle /\ DecodeIdle /\ RemoteIdle /\ HoldingIdle /\ EconomyIdle /\ DividendIdle /\ AdmissionIdle /\ BudgetIdle /\ DatasetIdle /\ RewardIdle

\* The receiver of the results channel takes one block.
SealInit == resultsCap = 1 /\ SealStart

\* The receiver of the results channel takes every block it is offered.
SealTaskInit == resultsCap = MaxResults /\ SealStart

\* The wall clock advances.
Tick ==
    /\ ticks < MaxTicks
    /\ ticks' = ticks + 1
    /\ wallClock' = wallClock + 20
    /\ UNCHANGED << exitCh, resultsCap, fakeFull, oracle, work, hashes, mineTarget, sealPc,
                    threadPc, threadNonce, found, deliverPc, stop, abort,
                    remote, results >>
    /\ UNCHANGED << notSealVars, parent, currentPeriod, storedPeriod,
                    difficultyLiveDropForkBlock >>

\* Prepare on a header stamped with the current time.
Prepare ==
    /\ sealPc = "idle"
    /\ LET period   == resolveBlockPeriod
           minDelta == minTimestampIncrement(period,
                           IsAfterDifficultyFork(parent.number + 1))
           earliest == parent.time + minDelta
           time     == IF wallClock < earliest THEN earliest ELSE wallClock
       IN  work' = [ number |-> parent.number + 1, time |-> time,
                     difficulty |-> CalcDifficulty(time, parent),
                     nonce |-> 0, mixDigest |-> EmptyHash ]
    /\ hashes' = HashTable(SealHash(work'))
    /\ sealPc' = "prepared"
    /\ UNCHANGED << exitCh, resultsCap, fakeFull, wallClock, ticks, oracle, mineTarget, threadPc,
                    threadNonce, found, deliverPc, stop, abort, remote,
                    results >>
    /\ UNCHANGED << notSealVars, parent, currentPeriod, storedPeriod,
                    difficultyLiveDropForkBlock >>

\* Seal: the fake engine starts one goroutine that hands the block over
\* unsealed; the real engine offers the task to the remote sealer (taken
\* only when its loop is ready), computes the target, then starts threads
\* mining goroutines with random start nonces and the delivery goroutine.
Seal(taken, threads, startNonce) ==
    /\ sealPc = "prepared"
    /\ taken => ~exitCh
    /\ sealPc' = "sealing"
    /\ IF fakeFull
       THEN /\ deliverPc' = "fake"
            /\ UNCHANGED << remote, mineTarget, threadPc, threadNonce >>
       ELSE /\ remote' = (IF taken THEN makeWork(work) ELSE remote)
            /\ IF BigIsZero(work.difficulty)
               THEN UNCHANGED << mineTarget, threadPc, threadNonce, deliverPc >>
               ELSE /\ mineTarget' = difficultyToTarget(work.difficulty)
                    /\ IF threads < 0
                       THEN UNCHANGED << threadPc, threadNonce, deliverPc >>
                       ELSE /\ threadPc' = [ t \in Threads |-> "hash" ]
                            /\ threadNonce' = startNonce
                            /\ deliverPc' = "select"
    /\ UNCHANGED << exitCh, resultsCap, fakeFull, wallClock, ticks, oracle, work, hashes, found,
                    stop, abort, results >>
    /\ UNCHANGED << notSealVars, parent, currentPeriod, storedPeriod,
                    difficultyLiveDropForkBlock >>

\* The goroutine of the fake engine.
FakeDeliver ==
    /\ deliverPc = "fake"
    /\ deliverPc' = "exit"
    /\ results' = (IF stop THEN results
                   ELSE Append(results, [ block |-> WithSeal(work, 0, EmptyHash),
                                          via |-> "fake" ]))
    /\ UNCHANGED << exitCh, resultsCap, fakeFull, wallClock, ticks, oracle, work, hashes,
                    mineTarget, sealPc, threadPc, threadNonce, found, stop,
                    abort, remote >>
    /\ UNCHANGED << notSealVars, parent, currentPeriod, storedPeriod,
                    difficultyLiveDropForkBlock >>

\* mine, one round of the loop: leave on abort or stop, else hash the nonce
\* and compare the digest with the target Seal handed over.
MineHash(t) ==
    /\ threadPc[t] = "hash"
    /\ LET seal == computeSeal(SealHash(work), threadNonce[t])
       IN  IF abort \/ stop
           THEN /\ threadPc' = [ threadPc EXCEPT ![t] = "exit" ]
                /\ UNCHANGED threadNonce
           ELSE IF compareDigest(seal.digest, mineTarget)
           THEN /\ threadPc' = [ threadPc EXCEPT ![t] = "wait" ]
                /\ UNCHANGED threadNonce
           ELSE /\ threadNonce' = [ threadNonce EXCEPT
                                      ![t] = (@ + 1) % (MaxNonce + 1) ]
                /\ UNCHANGED threadPc
    /\ UNCHANGED << exitCh, resultsCap, fakeFull, wallClock, ticks, oracle, work, hashes,
                    mineTarget, sealPc, found, deliverPc, stop, abort, remote,
                    results >>
    /\ UNCHANGED << notSealVars, parent, currentPeriod, storedPeriod,
                    difficultyLiveDropForkBlock >>

\* mine, after a hit: wait for the header's timestamp, then offer the sealed
\* block on found without blocking.
MineWait(t) ==
    /\ threadPc[t] = "wait"
    /\ IF wallClock < work.time
       THEN /\ abort \/ stop
            /\ UNCHANGED found
       ELSE LET seal == computeSeal(SealHash(work), threadNonce[t])
            IN  found' = (IF found = << >>
                          THEN << WithSeal(work, threadNonce[t], seal.mix) >>
                          ELSE found)
    /\ threadPc' = [ threadPc EXCEPT ![t] = "exit" ]
    /\ UNCHANGED << exitCh, resultsCap, fakeFull, wallClock, ticks, oracle, work, hashes,
                    mineTarget, sealPc, threadNonce, deliverPc, stop, abort,
                    remote, results >>
    /\ UNCHANGED << notSealVars, parent, currentPeriod, storedPeriod,
                    difficultyLiveDropForkBlock >>

\* The delivery goroutine: forward a found block unless stopped; close abort.
Deliver(sent) ==
    /\ deliverPc = "select"
    /\ \/ /\ found # << >>
          /\ sent \/ stop
          /\ found' = << >>
          /\ sent => Len(results) < resultsCap
          /\ results' = (IF sent
                         THEN Append(results, [ block |-> Head(found), via |-> "local" ])
                         ELSE results)
       \/ /\ stop
          /\ UNCHANGED << found, results >>
    /\ deliverPc' = "exit"
    /\ abort' = TRUE
    /\ UNCHANGED << exitCh, resultsCap, fakeFull, wallClock, ticks, oracle, work, hashes,
                    mineTarget, sealPc, threadPc, threadNonce, stop, remote >>
    /\ UNCHANGED << notSealVars, parent, currentPeriod, storedPeriod,
                    difficultyLiveDropForkBlock >>

\* The caller closes stop.
Stop ==
    /\ sealPc = "sealing"
    /\ ~stop
    /\ stop' = TRUE
    /\ UNCHANGED << exitCh, resultsCap, fakeFull, wallClock, ticks, oracle, work, hashes,
                    mineTarget, sealPc, threadPc, threadNonce, found, deliverPc,
                    abort, remote, results >>
    /\ UNCHANGED << notSealVars, parent, currentPeriod, storedPeriod,
                    difficultyLiveDropForkBlock >>

\* Close: the remote sealer is told to stop, its loop returns and takes no
\* further task or solution.
Close ==
    /\ ~exitCh
    /\ exitCh' = TRUE
    /\ UNCHANGED << resultsCap, fakeFull, wallClock, ticks, oracle, work, hashes,
                    mineTarget, sealPc, threadPc, threadNonce, found, deliverPc,
                    stop, abort, remote, results >>
    /\ UNCHANGED << notSealVars, parent, currentPeriod, storedPeriod,
                    difficultyLiveDropForkBlock >>

\* sealer.go submitWork(nonce, mixDigest, sealhash) from a remote miner:
\* known says whether sealhash names a stored work, goodMix whether the
\* miner sends the mix digest of its nonce.  Every early return, and an
\* offer the results channel does not take, leaves the state as it is.
SubmitWork(nonce, goodMix, known) ==
    /\ sealPc = "sealing"
    /\ ~exitCh
    /\ LET block  == remote.currentBlock
           mix    == IF goodMix THEN computeSeal(SealHash(block), nonce).mix
                     ELSE << "forged" >>
           sealed == WithSeal(block, nonce, mix)
       IN  /\ block # NoWork /\ known
           /\ verifySeal(sealed) = "nil"
           /\ remote.results
           /\ Len(results) < resultsCap
           /\ results' = Append(results, [ block |-> sealed, via |-> "remote" ])
    /\ UNCHANGED << exitCh, resultsCap, fakeFull, wallClock, ticks, oracle, work, hashes,
                    mineTarget, sealPc, threadPc, threadNonce, found, deliverPc,
                    stop, abort, remote >>
    /\ UNCHANGED << notSealVars, parent, currentPeriod, storedPeriod,
                    difficultyLiveDropForkBlock >>

SealNext ==
    \/ Tick
    \/ Prepare
    \/ \E taken \in BOOLEAN, threads \in {0 - 1, NumThreads},
          startNonce \in [ Threads -> Nonces ] :
           Seal(taken, threads, startNonce)
    \/ FakeDeliver
    \/ \E t \in Threads : MineHash(t)
    \/ \E t \in Threads : MineWait(t)
    \/ \E sent \in BOOLEAN : Deliver(sent)
    \/ Stop
    \/ \E nonce \in Nonces, goodMix \in BOOLEAN, known \in BOOLEAN :
           SubmitWork(nonce, goodMix, known)

SpecSeal == SealInit /\ [][SealNext]_vars

\* One sealing task on an engine that may be closed while it runs.
SealTaskNext ==
    \/ SealNext
    \/ Close

SpecSealTask == SealTaskInit /\ [][SealTaskNext]_vars

(***************************************************************************)
(* Claims about sealing.  A block in the results channel is what the       *)
(* caller of Seal is handed; the claims apply the engine's checks to it    *)
(* with the clock of the moment.                                           *)
(***************************************************************************)
Delivered == { results[i] : i \in 1..Len(results) }
WithinFutureLimit(b) == b.time <= wallClock + allowedFutureBlockTimeSeconds

C18_AtMostOnePerTask ==
    Len(results) <= 1

\* C19: with the task's stop channel or the engine's exit channel closed,
\* a mining worker that comes round its loop returns.
LoopStep(t) ==
    /\ threadPc[t] \in { "hash", "wait" }
    /\ threadPc'[t] # threadPc[t] \/ threadNonce'[t] # threadNonce[t]

C19_CancelledByStopOrExit ==
    [][ \A t \in Threads :
          ( (stop \/ exitCh) /\ LoopStep(t) ) => threadPc'[t] = "exit" ]_vars

\* 2^256 / difficulty, the bound the claim names.
ClaimedTarget(difficulty) ==
    BigDivSmall(BigPow(65536, 16), ToNat(difficulty))

\* C10: a seal of the prepared header is valid exactly when its final digest
\* is at most 2^256 / difficulty (integer division); the mining loop keeps
\* only nonces within that bound, and the published work package carries
\* that bound as its target.
C10_TargetIsTwoTo256OverDifficulty ==
    /\ sealPc # "idle" =>
           \A n \in Nonces :
               LET seal == computeSeal(SealHash(work), n)
               IN  verifySeal(WithSeal(work, n, seal.mix)) = "nil"
                       <=> BigLe(seal.digest, ClaimedTarget(work.difficulty))
    /\ \A t \in Threads : threadPc[t] = "wait" =>
           BigLe(computeSeal(SealHash(work), threadNonce[t]).digest,
                 ClaimedTarget(work.difficulty))
    /\ remote.currentBlock # NoWork =>
           remote.target = ClaimedTarget(remote.currentBlock.difficulty)


(***************************************************************************)
(* Block import on two nodes.  Each node is a process of its own: it has   *)
(* its wall clock, its process-wide dividend rate, its engine, and the     *)
(* ledger it has built from the blocks imported so far.  The ledger holds  *)
(* the slots of the dividend contract for one claimant and the claimant's  *)
(* balance.                                                                *)
(***************************************************************************)
dividendOptions == << 50, 100, 150, 200, 300 >>
dividendInterval == 364 * 24 * 60 * 60
claimWindow == 24 * 60 * 60
maxTimestampDrift == 15

\* uint64 subtraction a - b as the comparisons of the dividend code see it:
\* the difference wraps to a value above every bound when a < b.
Uint64Sub(a, b) == IF a < b THEN 2147483647 ELSE a - b

ensureDividendAccount(s) ==
    IF s.nonce = 0 THEN [ s EXCEPT !.nonce = 1 ] ELSE s

bootstrapHolding(s) ==
    IF ~BigIsZero(s.holding.held) \/ s.holding.recent # << >> THEN s
    ELSE IF BigIsZero(s.balance) THEN s
    ELSE [ s EXCEPT !.holding.held = s.balance, !.holding.holdingTime = 0 ]

ClaimDividend_ClaimedUnchecked(s, now, real) ==
    LET s1     == ensureDividendAccount(s)
        s2     == bootstrapHolding(s1)
        s3     == [ s2 EXCEPT !.holding = matureRecent(s2.holding, now) ]
        held   == s3.holding.held
        reward == BigDivSmall(BigMulSmall(held, s3.roundRate), 10000)
        no     == [ state |-> s3, ok |-> FALSE ]
    IN  IF now > real + maxTimestampDrift THEN no
        ELSE IF s3.roundRate = 0 THEN no
        ELSE IF now < s3.roundStart
                \/ Uint64Sub(now, s3.roundStart) > claimWindow THEN no
        ELSE IF Uint64Sub(now, s3.holding.holdingTime) < dividendQualify
            THEN no
        ELSE IF BigIsZero(held) THEN no
        ELSE IF BigIsZero(reward) THEN no
        ELSE [ state |-> [ s3 EXCEPT !.balance = BigAdd(@, reward),
                                     !.holding.held = BigAdd(held, reward),
                                     !.claimedRound = s3.roundID ],
               ok |-> TRUE ]

ClaimDividend_HeldNotRaised(s, now, real) ==
    LET s1     == ensureDividendAccount(s)
        s2     == bootstrapHolding(s1)
        s3     == [ s2 EXCEPT !.holding = matureRecent(s2.holding, now) ]
        held   == s3.holding.held
        reward == BigDivSmall(BigMulSmall(held, s3.roundRate), 10000)
        no     == [ state |-> s3, ok |-> FALSE ]
    IN  IF now > real + maxTimestampDrift THEN no
        ELSE IF s3.roundRate = 0 THEN no
        ELSE IF now < s3.roundStart
                \/ Uint64Sub(now, s3.roundStart) > claimWindow THEN no
        ELSE IF Uint64Sub(now, s3.holding.holdingTime) < dividendQualify
            THEN no
        ELSE IF s3.claimedRound = s3.roundID THEN no
        ELSE IF BigIsZero(held) THEN no
        ELSE IF BigIsZero(reward) THEN no
        ELSE [ state |-> [ s3 EXCEPT !.balance = BigAdd(@, reward),
                                     !.claimedRound = s3.roundID ],
               ok |-> TRUE ]

\* ClaimDividend(s, addr, now) on a process whose clock reads real: the
\* ledger it leaves and the value it returns.
ClaimDividend(s, now, real) ==
    LET s1     == ensureDividendAccount(s)
        s2     == bootstrapHolding(s1)
        s3     == [ s2 EXCEPT !.holding = matureRecent(s2.holding, now) ]
        held   == s3.holding.held
        reward == BigDivSmall(BigMulSmall(held, s3.roundRate), 10000)
        no     == [ state |-> s3, ok |-> FALSE ]
    IN  IF now > real + maxTimestampDrift THEN no
        ELSE IF s3.roundRate = 0 THEN no
        ELSE IF now < s3.roundStart
                \/ Uint64Sub(now, s3.roundStart) > claimWindow THEN no
        ELSE IF Uint64Sub(now, s3.holding.holdingTime) < dividendQualify
            THEN no
        ELSE IF s3.claimedRound = s3.roundID THEN no
        ELSE IF BigIsZero(held) THEN no
        ELSE IF BigIsZero(reward) THEN no
        ELSE [ state |-> [ s3 EXCEPT !.balance = BigAdd(@, reward),
                                     !.holding.held = BigAdd(held, reward),
                                     !.claimedRound = s3.roundID ],
               ok |-> TRUE ]

TriggerDividend_IntervalIgnored(s, now, real, rate) ==
    LET s1 == ensureDividendAccount(s)
        no == [ state |-> s1, ok |-> FALSE ]
    IN  IF now > real + maxTimestampDrift THEN no
        ELSE IF s1.roundRate # 0
                /\ Uint64Sub(now, s1.roundStart) <= claimWindow THEN no
        ELSE [ state |-> [ s1 EXCEPT !.roundRate = rate,
                                     !.roundStart = now,
                                     !.roundID = @ + 1,
                                     !.lastDividend = now ],
               ok |-> TRUE ]

\* TriggerDividend(s, now) on a process whose clock reads real and whose
\* process-wide rate is rate.
TriggerDividend(s, now, real, rate) ==
    LET s1 == ensureDividendAccount(s)
        no == [ state |-> s1, ok |-> FALSE ]
    IN  IF now > real + maxTimestampDrift THEN no
        ELSE IF s1.lastDividend # 0
                /\ Uint64Sub(now, s1.lastDividend) < dividendInterval THEN no
        ELSE IF s1.roundRate # 0
                /\ Uint64Sub(now, s1.roundStart) <= claimWindow THEN no
        ELSE [ state |-> [ s1 EXCEPT !.roundRate = rate,
                                     !.roundStart = now,
                                     !.roundID = @ + 1,
                                     !.lastDividend = now ],
               ok |-> TRUE ]

\* DecodeDividendRate(data): the option a one-byte payload selects.
DecodeDividendRate(idx) ==
    IF idx < 0 \/ idx >= Len(dividendOptions)
    THEN [ rate |-> 0, ok |-> FALSE ]
    ELSE [ rate |-> dividendOptions[idx + 1], ok |-> TRUE ]

\* The dividend transaction of a block, applied with now = the block's time
\* on a process whose clock reads real and whose process-wide rate is rate:
\* an empty payload claims, a one-byte payload sets the process-wide rate
\* and triggers a round.  It gives the ledger, the receipt and the rate the
\* process is left with.
ApplyDividendTx(s, block, real, rate) ==
    IF block.data = << >>
    THEN LET r == ClaimDividend(s, block.time, real)
         IN  [ state |-> r.state, ok |-> r.ok, rate |-> rate ]
    ELSE LET dec == DecodeDividendRate(block.data[1])
             set == IF dec.ok THEN dec.rate ELSE rate
             r   == IF dec.ok THEN TriggerDividend(s, block.time, real, set)
                    ELSE [ state |-> s, ok |-> FALSE ]
         IN  [ state |-> r.state, ok |-> r.ok, rate |-> set ]

(***************************************************************************)
(* Import specification: blocks carrying one dividend transaction each are *)
(* produced on top of a genesis and imported, in order, by both nodes.     *)
(***************************************************************************)
GenesisTime == 40 * 24 * 60 * 60

\* The genesis of the two-node import test (a round open since genesis, a
\* funded claimant), and one with no round yet.
GenesisLedgers ==
    { [ nonce |-> 0, lastDividend |-> r[1], roundRate |-> r[2],
        roundStart |-> r[1], roundID |-> r[3], claimedRound |-> 0,
        holding |-> NoHolding, balance |-> FromNat(1000000) ] :
      r \in { << GenesisTime, dividendOptions[1], 1 >>, << 0, 0, 0 >> } }

ImportInit ==
    /\ chain = << >>
    /\ \E g \in GenesisLedgers, fake \in BOOLEAN :
           nodes \in [ NodeIds ->
                         [ clock : { GenesisTime - 60, GenesisTime + 60 },
                           currentDividend : { dividendOptions[1] },
                           fakeFull : { fake },
                           state : { g },
                           receipts : { << >> } ] ]
    /\ DiffIdle /\ SupplyIdle /\ SealIdle /\ VerifyIdle /\ MirrorIdle /\ DecodeIdle /\ RemoteIdle /\ HoldingIdle /\ EconomyIdle /\ DividendIdle /\ AdmissionIdle /\ BudgetIdle /\ DatasetIdle /\ RewardIdle

\* The next block: period seconds after its parent, with one transaction.
ProduceBlock(data) ==
    /\ Len(chain) < MaxChain
    /\ chain' = Append(chain, [ time |-> GenesisTime
                                         + (Len(chain) + 1) * defaultPeriod,
                                data |-> data ])
    /\ UNCHANGED nodes
    /\ UNCHANGED notImportVars

\* SetDividendRate(rate) in the process of node n.
SetDividendRate(n, rate) ==
    /\ nodes[n].currentDividend # rate
    /\ nodes' = [ nodes EXCEPT ![n].currentDividend = rate ]
    /\ UNCHANGED chain
    /\ UNCHANGED notImportVars

\* Node n imports its next block: the engine's VerifyHeader turns away a
\* block too far ahead of the node's clock, unless it is a fake engine;
\* then the block's transaction is applied.
ImportBlock(n) ==
    /\ Len(nodes[n].receipts) < Len(chain)
    /\ LET node  == nodes[n]
           block == chain[Len(node.receipts) + 1]
           res   == ApplyDividendTx(node.state, block, node.clock,
                                    node.currentDividend)
       IN  /\ node.fakeFull
              \/ block.time <= node.clock + allowedFutureBlockTimeSeconds
           /\ nodes' = [ nodes EXCEPT ![n].state = res.state,
                                      ![n].currentDividend = res.rate,
                                      ![n].receipts = Append(@, res.ok) ]
    /\ UNCHANGED chain
    /\ UNCHANGED notImportVars

ImportNext ==
    \/ \E data \in { << >>, << 0 >>, << 1 >> } : ProduceBlock(data)
    \/ \E n \in NodeIds, rate \in { dividendOptions[1], dividendOptions[2] } :
           SetDividendRate(n, rate)
    \/ \E n \in NodeIds : ImportBlock(n)

SpecImport == ImportInit /\ [][ImportNext]_vars

\* C3: two nodes that have imported the same blocks from the same genesis
\* hold the same ledger and the same receipts, whatever their wall clocks
\* and their process-wide dividend rates.
C3_SameBlocksSameState ==
    \A a, b \in NodeIds :
        Len(nodes[a].receipts) = Len(nodes[b].receipts) =>
            /\ nodes[a].state = nodes[b].state
            /\ nodes[a].receipts = nodes[b].receipts

(***************************************************************************)
(* VerifyHeaders on a batch.  A header carries its hash and its parent's   *)
(* hash; the chain database holds the head only.  The verifier goroutine   *)
(* walks the batch; the caller may close abort at any moment.              *)
(***************************************************************************)
HeadHash == 1
OrphanHash == 2
UnknownHash == 3

\* chain.GetHeader(hash, number): the header, if the database has it.
GetHeader(hash, number) ==
    IF hash = HeadHash /\ number = parent.number
    THEN { [ hash |-> HeadHash, parentHash |-> 0, number |-> parent.number,
             time |-> parent.time, difficulty |-> parent.difficulty,
             nonce |-> 0, mixDigest |-> EmptyHash ] }
    ELSE { }

\* Headers built on p: at the parent's time, 2 s later with a difficulty no
\* rule yields, 3 s later, and one period later with a number that skips one.
KidKinds ==
    { [ k |-> 1, off |-> 0, okDiff |-> TRUE, skip |-> 0 ],
      [ k |-> 2, off |-> 2, okDiff |-> FALSE, skip |-> 0 ],
      [ k |-> 3, off |-> 3, okDiff |-> TRUE, skip |-> 0 ],
      [ k |-> 4, off |-> defaultPeriod, okDiff |-> TRUE, skip |-> 1 ] }

Kid(p, kind) ==
    [ hash |-> p.hash * 10 + kind.k, parentHash |-> p.hash,
      number |-> p.number + 1 + kind.skip, time |-> p.time + kind.off,
      difficulty |-> IF kind.okDiff THEN CalcDifficulty(p.time + kind.off, p)
                     ELSE BigZero,
      nonce |-> 0, mixDigest |-> EmptyHash ]

Kids(p) == { Kid(p, kind) : kind \in KidKinds }

HeadHeader == CHOOSE h \in GetHeader(HeadHash, parent.number) : TRUE

Orphan ==
    [ hash |-> OrphanHash, parentHash |-> UnknownHash,
      number |-> parent.number + 1, time |-> parent.time + 3,
      difficulty |-> parent.difficulty, nonce |-> 0, mixDigest |-> EmptyHash ]

\* The batches handed to VerifyHeaders: up to MaxBatch headers, each built on
\* the one before it or on the head, or an orphan in front.
RECURSIVE BatchesOfLen(_)
BatchesOfLen(n) ==
    IF n = 0 THEN { << >> }
    ELSE IF n = 1 THEN { << h >> : h \in Kids(HeadHeader) \cup { Orphan } }
    ELSE UNION { { Append(b, h) :
                     h \in Kids(b[Len(b)])
                           \cup { Kid(HeadHeader, kind) :
                                    kind \in { x \in KidKinds : x.k = 3 } } } :
                 b \in BatchesOfLen(n - 1) }

Batches == UNION { BatchesOfLen(n) : n \in 0..MaxBatch }

\* seal := true; if len(seals) > i { seal = seals[i] }   (i from 1 here)
SealFlag(seals, i) == IF Len(seals) >= i THEN seals[i] ELSE TRUE

\* The parent header i is checked against: headers[i-1] when it is the
\* parent by hash and number, else what the chain database returns.
ResolveParent_ChainOnly(hs, i) ==
    GetHeader(hs[i].parentHash, hs[i].number - 1)

ResolveParent(hs, i) ==
    IF /\ i > 1
       /\ hs[i - 1].hash = hs[i].parentHash
       /\ hs[i - 1].number + 1 = hs[i].number
    THEN { hs[i - 1] }
    ELSE GetHeader(hs[i].parentHash, hs[i].number - 1)

\* The result of one loop iteration.
VerifyAt(hs, seals, i, unixNow) ==
    LET ps == ResolveParent(hs, i)
    IN  IF ps = { } THEN "ErrUnknownAncestor"
        ELSE verifyHeader(hs[i], CHOOSE p \in ps : TRUE,
                          SealFlag(seals, i), unixNow)

(***************************************************************************)
(* Batch verification specification.                                       *)
(***************************************************************************)
VerifyInit ==
    /\ parent \in [ number : { difficultyForkBlock - 2,
                                difficultyForkBlock - 1 },
                     time : { 100 }, difficulty : { FromNat(1000000) } ]
    /\ \E pr \in { << 0, defaultPeriod >>, << 11, defaultPeriod >>,
                    << 0, 0 >> } :
           storedPeriod = pr[1] /\ currentPeriod = pr[2]
    /\ difficultyLiveDropForkBlock = NilBlock
    /\ inserted = 0 /\ calc = NoCalc
    /\ fakeFull \in BOOLEAN
    /\ wallClock \in { parent.time - 14, parent.time + 100 }
    /\ SealQuiet /\ SupplyIdle /\ ImportIdle /\ VerifyIdle /\ MirrorIdle /\ DecodeIdle /\ RemoteIdle /\ HoldingIdle /\ EconomyIdle /\ DividendIdle /\ AdmissionIdle /\ BudgetIdle /\ DatasetIdle /\ RewardIdle

\* results := make(chan error, len(headers)): the room in the channel.  No
\* result is taken out while the batch runs; that is the least room there is.
ResultsCap(hs) == Len(hs)

\* VerifyHeaders(chain, hs, seals): the channels are made and the goroutine
\* is started; a fake engine or an empty batch gets the goroutine that sends
\* nil for every header.
VerifyHeaders(hs, seals) ==
    /\ vhPc = "idle"
    /\ vhHeaders' = hs /\ vhSeals' = seals
    /\ vhPc' = IF fakeFull \/ Len(hs) = 0 THEN "fake" ELSE "start"
    /\ vhIndex' = 1
    /\ UNCHANGED << vhNow, vhErr, vhResults, vhAbort, vhAbortAt >>
    /\ UNCHANGED notVerifyVars

\* for range headers { results <- nil }
FakeSend ==
    /\ vhPc = "fake" /\ vhIndex <= Len(vhHeaders)
    /\ Len(vhResults) < ResultsCap(vhHeaders)
    /\ vhResults' = Append(vhResults, "nil")
    /\ vhIndex' = vhIndex + 1
    /\ UNCHANGED << vhHeaders, vhSeals, vhPc, vhNow, vhErr, vhAbort,
                    vhAbortAt >>
    /\ UNCHANGED notVerifyVars

\* The range is exhausted: the deferred close(results) runs.
FakeClose ==
    /\ vhPc = "fake" /\ vhIndex > Len(vhHeaders)
    /\ vhPc' = "done"
    /\ UNCHANGED << vhHeaders, vhSeals, vhIndex, vhNow, vhErr, vhResults,
                    vhAbort, vhAbortAt >>
    /\ UNCHANGED notVerifyVars

\* unixNow := time.Now().Unix()
ReadClock ==
    /\ vhPc = "start"
    /\ vhNow' = wallClock
    /\ vhPc' = "loop"
    /\ UNCHANGED << vhHeaders, vhSeals, vhIndex, vhErr, vhResults, vhAbort,
                    vhAbortAt >>
    /\ UNCHANGED notVerifyVars

\* The range is exhausted: the deferred close(results) runs.
LoopEnd ==
    /\ vhPc = "loop" /\ vhIndex > Len(vhHeaders)
    /\ vhPc' = "done"
    /\ UNCHANGED << vhHeaders, vhSeals, vhIndex, vhNow, vhErr, vhResults,
                    vhAbort, vhAbortAt >>
    /\ UNCHANGED notVerifyVars

\* select { case <-abort: return; default: } with abort closed.
LoopAbort ==
    /\ vhPc = "loop" /\ vhIndex <= Len(vhHeaders) /\ vhAbort
    /\ vhPc' = "done"
    /\ UNCHANGED << vhHeaders, vhSeals, vhIndex, vhNow, vhErr, vhResults,
                    vhAbort, vhAbortAt >>
    /\ UNCHANGED notVerifyVars

\* The default branch: the parent is resolved and the header verified.
LoopVerify ==
    /\ vhPc = "loop" /\ vhIndex <= Len(vhHeaders) /\ ~vhAbort
    /\ vhErr' = VerifyAt(vhHeaders, vhSeals, vhIndex, vhNow)
    /\ vhPc' = "send"
    /\ UNCHANGED << vhHeaders, vhSeals, vhIndex, vhNow, vhResults, vhAbort,
                    vhAbortAt >>
    /\ UNCHANGED notVerifyVars

\* select { case results <- err: ... }: ready when the channel has room.
Send ==
    /\ vhPc = "send"
    /\ Len(vhResults) < ResultsCap(vhHeaders)
    /\ vhResults' = Append(vhResults, vhErr)
    /\ vhIndex' = vhIndex + 1
    /\ vhPc' = "loop"
    /\ UNCHANGED << vhHeaders, vhSeals, vhNow, vhErr, vhAbort, vhAbortAt >>
    /\ UNCHANGED notVerifyVars

\* select { ... case <-abort: return }: ready once abort is closed; with
\* both cases ready the runtime picks either.
SendAbort ==
    /\ vhPc = "send" /\ vhAbort
    /\ vhPc' = "done"
    /\ UNCHANGED << vhHeaders, vhSeals, vhIndex, vhNow, vhErr, vhResults,
                    vhAbort, vhAbortAt >>
    /\ UNCHANGED notVerifyVars

\* The caller closes abort.
CloseAbort ==
    /\ vhPc # "idle" /\ ~vhAbort
    /\ vhAbort' = TRUE
    /\ vhAbortAt' = Len(vhResults)
    /\ UNCHANGED << vhHeaders, vhSeals, vhPc, vhIndex, vhNow, vhErr,
                    vhResults >>
    /\ UNCHANGED notVerifyVars

VerifierStep ==
    \/ FakeSend \/ FakeClose \/ ReadClock \/ LoopEnd \/ LoopAbort
    \/ LoopVerify \/ Send \/ SendAbort

VerifyNext ==
    \/ /\ vhPc = "idle"
       /\ \E hs \in Batches :
              \E seals \in { << >>, [ i \in 1..Len(hs) |-> FALSE ] } :
                  VerifyHeaders(hs, seals)
    \/ FakeSend \/ FakeClose \/ ReadClock \/ LoopEnd \/ LoopAbort
    \/ LoopVerify \/ Send \/ SendAbort
    \/ CloseAbort

SpecVerify == VerifyInit /\ [][VerifyNext]_vars

(***************************************************************************)
(* Claims about header verification.  The results sent by a verifier that  *)
(* is not in fake mode are what verifyHeader returned for the headers of   *)
(* the batch.                                                              *)
(***************************************************************************)
Verified == IF fakeFull THEN { } ELSE 1..Len(vhResults)
Resolved == { i \in Verified : ResolveParent(vhHeaders, i) # { } }
ParentOf(i) == CHOOSE p \in ResolveParent(vhHeaders, i) : TRUE
Delta(i) == vhHeaders[i].time - ParentOf(i).time

CeilOf(x, d) == (x \div d) + (IF x % d = 0 THEN 0 ELSE 1)

\* ceil(P*num/den) after the difficulty fork, ceil(P/6) before, at least 1.
MinIncrementFor(P, number) ==
    LET raw == IF IsAfterDifficultyFork(number)
               THEN CeilOf(P * difficultyMinTimestampNum,
                           difficultyMinTimestampDen)
               ELSE CeilOf(P, 6)
    IN  IF raw < 1 THEN 1 ELSE raw

\* The minimum the claim names: P is the stored period of the parent when
\* it is non-zero, otherwise the runtime period.
ClaimedMinIncrement(number) ==
    MinIncrementFor(IF storedPeriod # 0 THEN storedPeriod ELSE currentPeriod,
                    number)

\* The same with a runtime period of 0 taken as 1.
ResolvedMinIncrement(number) ==
    MinIncrementFor(IF storedPeriod # 0 THEN storedPeriod
                    ELSE IF currentPeriod = 0 THEN 1 ELSE currentPeriod,
                    number)

ClaimedResult(i) ==
    LET h    == vhHeaders[i]
        prev == IF i > 1 THEN { vhHeaders[i - 1] } ELSE { }
        inB  == { p \in prev : p.hash = h.parentHash
                               /\ p.number + 1 = h.number }
        ps   == IF inB # { } THEN inB
                ELSE GetHeader(h.parentHash, h.number - 1)
    IN  IF ps = { } THEN "ErrUnknownAncestor"
        ELSE verifyHeader(h, CHOOSE p \in ps : TRUE,
                          SealFlag(vhSeals, i), vhNow)

\* One result per header so far, in input order.
InInputOrder(expected(_)) ==
    /\ Len(vhResults) <= Len(vhHeaders)
    /\ \A i \in 1..Len(vhResults) : vhResults[i] = expected(i)

\* The channel is closed short of a result per header only after an abort.
ClosedShortOnlyOnAbort ==
    (vhPc = "done" /\ Len(vhResults) < Len(vhHeaders)) => vhAbort

\* C12 as stated: one result per header in input order, each the result of
\* checking the header against its in-batch or chain parent, then the
\* channel is closed; once abort is closed no further result is emitted.
C12_NoResultAfterAbort ==
    /\ InInputOrder(ClaimedResult)
    /\ ClosedShortOnlyOnAbort
    /\ vhAbort => Len(vhResults) = vhAbortAt

FakeResult(i) == "nil"

Running == vhPc \in { "fake", "start", "loop", "send" }

\* Where the goroutine sends, the channel has room.
NeverBlocked ==
    (vhPc = "send" \/ (vhPc = "fake" /\ vhIndex <= Len(vhHeaders)))
        => Len(vhResults) < ResultsCap(vhHeaders)

\* An upper bound on the steps the goroutine still takes.
StepsLeft ==
    LET left == Len(vhHeaders) + 1 - vhIndex
    IN  CASE vhPc = "start" -> 2 * left + 3
          [] vhPc = "loop"  -> 2 * left + 2
          [] vhPc = "send"  -> 2 * left + 1
          [] vhPc = "fake"  -> left + 1
          [] OTHER          -> 0

C12_Safety ==
    /\ ClosedShortOnlyOnAbort
    /\ ~(fakeFull \/ Len(vhHeaders) = 0) =>
           /\ InInputOrder(ClaimedResult)
           /\ vhAbort => Len(vhResults) <= vhAbortAt + 1
    /\ (fakeFull \/ Len(vhHeaders) = 0) =>
           /\ InInputOrder(FakeResult)
           /\ vhPc = "done" => Len(vhResults) = Len(vhHeaders)

\* C12: on an engine that is not in fake mode VerifyHeaders emits one result
\* per input header, in input order, and then closes the results channel,
\* unless abort is closed, after which at most one further result is emitted;
\* header i is checked against headers[i-1] when that header is its parent
\* by hash and number, otherwise against the header fetched from the chain,
\* and yields unknown-ancestor when neither exists.  A fake engine emits nil
\* for every header, abort or not.  In every case the verifier goroutine
\* terminates and closes the channel: its sends find room in the channel,
\* and every step brings it closer to the end.
C12_BatchResults ==
    /\ []C12_Safety
    /\ []NeverBlocked
    /\ [][VerifierStep => StepsLeft' < StepsLeft]_vars

C12_Witness ==
    /\ ~fakeFull /\ vhAbort /\ vhPc = "done"
    /\ Len(vhResults) = vhAbortAt + 1
    /\ \E i \in 2..Len(vhResults) :
           /\ vhHeaders[i - 1].hash = vhHeaders[i].parentHash
           /\ vhResults[i] = "nil"

(***************************************************************************)
(* Reward schedule specification: the reward fork block is configured and  *)
(* rewardForBlock is called on block numbers around the halving points.    *)
(***************************************************************************)
RewardForkBlocks == { 0, 1, 1000, RewardHalvingInterval + 7 }

\* Block numbers below the fork block, and at, just after, halfway through
\* and at the end of each of the first halving intervals.
RewardNumbers(start) ==
    { n \in { 0, start - 1 } : 0 <= n /\ n < start }
    \cup { start + k * RewardHalvingInterval + off :
             k \in 0..MaxHalvings,
             off \in { 0, 1, RewardHalvingInterval \div 2,
                       RewardHalvingInterval - 1 } }

RewardInit ==
    /\ rewardStart = rewardForkBlock
    /\ rewarded = NoReward
    /\ DiffIdle /\ SupplyIdle /\ SealIdle /\ ImportIdle /\ VerifyIdle /\ MirrorIdle /\ DecodeIdle /\ RemoteIdle /\ HoldingIdle /\ EconomyIdle /\ DividendIdle /\ AdmissionIdle /\ BudgetIdle /\ DatasetIdle

\* params.SetRewardForkBlock(block)
SetRewardForkBlock(block) ==
    /\ rewardStart' = block
    /\ UNCHANGED rewarded
    /\ UNCHANGED notRewardVars

\* rewardForBlock(number)
RewardCall(number) ==
    /\ rewarded' = [ called |-> TRUE, number |-> number,
                     reward |-> rewardForBlock(number) ]
    /\ UNCHANGED rewardStart
    /\ UNCHANGED notRewardVars

RewardNext ==
    \/ \E block \in RewardForkBlocks : SetRewardForkBlock(block)
    \/ \E number \in RewardNumbers(rewardStart) : RewardCall(number)

SpecReward == RewardInit /\ [][RewardNext]_vars

RECURSIVE TwoTo(_)
TwoTo(k) == IF k = 0 THEN 1 ELSE 2 * TwoTo(k - 1)

\* C13: for every k >= 0, rewardForBlock(start + k*interval) is
\* max(floor, base >> k); the reward is constant inside a halving interval,
\* never below floor, non-increasing in the block number from start on, and
\* equal to base for every block number below start.
C13_Halving ==
    LET s == rewardStart
        N == RewardNumbers(s)
        I == RewardHalvingInterval
    IN  /\ \A k \in 0..MaxHalvings :
               rewardForBlock(s + k * I)
                   = BigMax(rewardFloorWei,
                            BigDivSmall(rewardBaseWei, TwoTo(k)))
        /\ \A n \in N :
               /\ BigLe(rewardFloorWei, rewardForBlock(n))
               /\ n < s => rewardForBlock(n) = rewardBaseWei
               /\ n >= s => rewardForBlock(n)
                               = rewardForBlock(s + ((n - s) \div I) * I)
        /\ \A n1, n2 \in N :
               (s <= n1 /\ n1 <= n2)
                   => BigLe(rewardForBlock(n2), rewardForBlock(n1))
        /\ rewarded.called => BigLe(rewarded.reward, rewardBaseWei)

C13_Witness ==
    /\ rewardStart > 0
    /\ rewarded.called
    /\ rewarded.number = rewardStart + 5 * RewardHalvingInterval
    /\ rewarded.reward = rewardFloorWei
    /\ rewardForBlock(rewarded.number - 1) = BigMulSmall(rewardFloorWei, 2)
    /\ rewardForBlock(rewardStart - 1) = rewardBaseWei

(***************************************************************************)
(* Epoch datasets: the in-memory map, the disk cache and the requests that *)
(* fill them (consensus.go dataset, prefetchDataset and helpers).  A       *)
(* dataset is the triple of its generator, its epoch and its length; a     *)
(* cache file is its size and the bytes it holds.                          *)
(***************************************************************************)
defaultDatasetInitBytes == 32 * 1024 * 1024
defaultDatasetGrowthBytes == 2 * 1024 * 1024

align64(value) == IF value % 64 = 0 THEN value ELSE value + (64 - (value % 64))

datasetSize(epoch) ==
    LET size == defaultDatasetInitBytes + defaultDatasetGrowthBytes * epoch
    IN  align64(IF size < 64 THEN 64 ELSE size)

buildDataset(epoch) == << "keccak512", epoch, datasetSize(epoch) >>

\* The bytes of a cache file that are not the ones persistDataset wrote.
AlteredData(epoch) == << "altered", epoch, datasetSize(epoch) >>

Resident(ds) == { e \in DOMAIN ds : ds[e] # NoData }

evictOldDatasetsLocked(ds, current) ==
    IF Cardinality(Resident(ds)) <= maxCachedDatasets THEN ds
    ELSE LET oldest == CHOOSE k \in Resident(ds) : \A o \in Resident(ds) : k <= o
         IN  IF oldest # current THEN [ ds EXCEPT ![oldest] = NoData ] ELSE ds

installDatasetLocked(ds, epoch, data) ==
    IF ds[epoch] # NoData
    THEN [ datasets |-> ds, data |-> ds[epoch], own |-> FALSE ]
    ELSE [ datasets |-> evictOldDatasetsLocked([ ds EXCEPT ![epoch] = data ], epoch),
           data |-> data, own |-> TRUE ]

tryLoadDatasetFromDisk_NoSizeCheck(dir, file, size) ==
    IF ~dir THEN [ err |-> "disabled", data |-> NoData, file |-> file ]
    ELSE IF file = NoFile THEN [ err |-> "notexist", data |-> NoData, file |-> file ]
    ELSE [ err |-> "nil", data |-> << file.data[1], file.data[2], file.size >>, file |-> file ]

tryLoadDatasetFromDisk(dir, file, size) ==
    IF ~dir THEN [ err |-> "disabled", data |-> NoData, file |-> file ]
    ELSE IF file = NoFile THEN [ err |-> "notexist", data |-> NoData, file |-> file ]
    ELSE IF file.size # size THEN [ err |-> "mismatch", data |-> NoData, file |-> NoFile ]
    ELSE [ err |-> "nil", data |-> file.data, file |-> file ]

persistDataset(dir, file, data) ==
    IF ~dir THEN file ELSE [ size |-> data[3], data |-> data ]

DatasetInit ==
    /\ cacheDir \in BOOLEAN
    /\ datasets = [ e \in Epochs |-> NoData ]
    /\ prefetching = { }
    /\ diskCache = [ e \in Epochs |-> NoFile ]
    /\ calls = EmptyBag
    /\ returned = NoReturn
    /\ events = 0
    /\ DiffIdle /\ SupplyIdle /\ SealIdle /\ ImportIdle /\ VerifyIdle /\ MirrorIdle /\ DecodeIdle /\ RemoteIdle /\ HoldingIdle /\ EconomyIdle /\ DividendIdle /\ AdmissionIdle /\ BudgetIdle /\ RewardIdle

\* The goroutines inside dataset are a bag: two of them at the same place
\* with the same data are interchangeable.
Enter(call) == calls (+) SetToBag({ call })
Leave(call) == calls (-) SetToBag({ call })
Move(call, next) == Leave(call) (+) SetToBag({ next })

\* A caller enters dataset(epoch).
DatasetCall(epoch) ==
    /\ BagCardinality(calls) < MaxCalls
    /\ events < MaxEvents
    /\ events' = events + 1
    /\ calls' = Enter(NewCall(epoch, FALSE))
    /\ UNCHANGED << cacheDir, datasets, prefetching, diskCache, returned >>
    /\ UNCHANGED notDatasetVars

\* prefetchDataset(epoch): under the lock, start a background dataset(epoch)
\* unless the epoch is resident or already being prefetched.
PrefetchDataset(epoch) ==
    /\ BagCardinality(calls) < MaxCalls
    /\ events < MaxEvents
    /\ events' = events + 1
    /\ IF datasets[epoch] # NoData \/ epoch \in prefetching
       THEN UNCHANGED << prefetching, calls >>
       ELSE /\ prefetching' = prefetching \cup { epoch }
            /\ calls' = Enter(NewCall(epoch, TRUE))
    /\ UNCHANGED << cacheDir, datasets, diskCache, returned >>
    /\ UNCHANGED notDatasetVars

\* dataset(epoch) hands data back; a prefetch goroutine then still has to
\* clear its mark.
Hand(call, data, source) ==
    /\ returned' = [ called |-> TRUE, epoch |-> call.epoch, data |-> data,
                     source |-> source ]
    /\ calls' = IF call.prefetch
                THEN Move(call, [ call EXCEPT !.pc = "unmark", !.data = NoData,
                                              !.source = "none", !.fileAtLoad = NoFile ])
                ELSE Leave(call)

\* The read-locked lookup at the head of dataset.
Lookup(call) ==
    /\ call.pc = "check"
    /\ IF datasets[call.epoch] # NoData
       THEN Hand(call, datasets[call.epoch], "memory")
       ELSE /\ calls' = Move(call, [ call EXCEPT !.pc = "load" ])
            /\ UNCHANGED returned
    /\ UNCHANGED << cacheDir, datasets, prefetching, diskCache, events >>
    /\ UNCHANGED notDatasetVars

Load(call) ==
    /\ call.pc = "load"
    /\ LET epoch == call.epoch
           r == tryLoadDatasetFromDisk(cacheDir, diskCache[epoch], datasetSize(epoch))
       IN  /\ diskCache' = [ diskCache EXCEPT ![epoch] = r.file ]
           /\ calls' = Move(call,
                  [ call EXCEPT !.pc = IF r.err = "nil" THEN "install" ELSE "build",
                                !.data = r.data,
                                !.source = IF r.err = "nil" THEN "disk" ELSE "none",
                                !.fileAtLoad = diskCache[epoch] ])
    /\ UNCHANGED << cacheDir, datasets, prefetching, returned, events >>
    /\ UNCHANGED notDatasetVars

\* buildDataset followed by persistDataset (temporary file, then rename).
Build(call) ==
    /\ call.pc = "build"
    /\ LET epoch == call.epoch
           data == buildDataset(epoch)
       IN  /\ diskCache' = [ diskCache EXCEPT ![epoch] = persistDataset(cacheDir, @, data) ]
           /\ calls' = Move(call,
                  [ call EXCEPT !.pc = "install", !.data = data, !.source = "build" ])
    /\ UNCHANGED << cacheDir, datasets, prefetching, returned, events >>
    /\ UNCHANGED notDatasetVars

Install(call) ==
    /\ call.pc = "install"
    /\ LET r == installDatasetLocked(datasets, call.epoch, call.data)
       IN  /\ datasets' = r.datasets
           /\ Hand(call, r.data, IF r.own THEN call.source ELSE "other")
    /\ UNCHANGED << cacheDir, prefetching, diskCache, events >>
    /\ UNCHANGED notDatasetVars

\* The tail of the prefetch goroutine.
Unmark(call) ==
    /\ call.pc = "unmark"
    /\ prefetching' = prefetching \ { call.epoch }
    /\ calls' = Leave(call)
    /\ UNCHANGED << cacheDir, datasets, diskCache, returned, events >>
    /\ UNCHANGED notDatasetVars

FaultKinds == { "remove", "truncate", "extend", "alter" }

\* The cache file of an epoch is damaged outside the engine.
DamageFile(epoch, kind) ==
    /\ diskCache[epoch] # NoFile
    /\ events < MaxEvents
    /\ events' = events + 1
    /\ diskCache' = [ diskCache EXCEPT ![epoch] =
           CASE kind = "remove" -> NoFile
             [] kind = "truncate" -> [ @ EXCEPT !.size = datasetSize(epoch) \div 2 ]
             [] kind = "extend" -> [ @ EXCEPT !.size = datasetSize(epoch) + 64 ]
             [] kind = "alter" -> [ @ EXCEPT !.data = AlteredData(epoch) ] ]
    /\ UNCHANGED << cacheDir, datasets, prefetching, calls, returned >>
    /\ UNCHANGED notDatasetVars

\* An epoch is dropped from memory (delete(engine.datasets, epoch)).
DropFromMemory(epoch) ==
    /\ datasets[epoch] # NoData
    /\ events < MaxEvents
    /\ events' = events + 1
    /\ datasets' = [ datasets EXCEPT ![epoch] = NoData ]
    /\ UNCHANGED << cacheDir, prefetching, diskCache, calls, returned >>
    /\ UNCHANGED notDatasetVars

DatasetNext ==
    \/ \E epoch \in Epochs : DatasetCall(epoch)
    \/ \E epoch \in Epochs : PrefetchDataset(epoch)
    \/ \E call \in BagToSet(calls) : Lookup(call)
    \/ \E call \in BagToSet(calls) : Load(call)
    \/ \E call \in BagToSet(calls) : Build(call)
    \/ \E call \in BagToSet(calls) : Install(call)
    \/ \E call \in BagToSet(calls) : Unmark(call)
    \/ \E epoch \in Epochs, kind \in FaultKinds : DamageFile(epoch, kind)
    \/ \E epoch \in Epochs : DropFromMemory(epoch)

SpecDataset == DatasetInit /\ [][DatasetNext]_vars

\* C15: whatever the cache file of an epoch holds, the buffer dataset(epoch)
\* returns is the deterministic build of that epoch.
C15_NeverSurfacesCorruptFile ==
    returned.called => returned.data = buildDataset(returned.epoch)

\* C15 is refuted by a cache file of the right size whose bytes were altered:
\* it is loaded, installed and handed to the caller.
C15_AlteredFileSurfaced ==
    ~ ( /\ returned.called
        /\ returned.source = "disk"
        /\ returned.data = AlteredData(returned.epoch) )

\* The cache file persistDataset writes for an epoch, and that file cut to
\* half its length.
Persisted(epoch) == [ size |-> datasetSize(epoch), data |-> buildDataset(epoch) ]
Truncated(epoch) == [ Persisted(epoch) EXCEPT !.size = datasetSize(epoch) \div 2 ]

\* The step taken is a step of this goroutine.
Moved(call) == CopiesIn(call, calls') < CopiesIn(call, calls)

\* C16: an epoch that was built and persisted and is no longer in memory is
\* loaded from its cache file, without a rebuild, with the bytes of the
\* build; when the cache file was truncated the file is removed, the
\* dataset is rebuilt with the bytes of the build, and the full-size file
\* is written again.
C16_CacheRoundTrip ==
    [][ \A call \in BagToSet(calls) :
          LET epoch == call.epoch
          IN  /\ ( call.pc = "load" /\ Moved(call) /\ diskCache[epoch] = Persisted(epoch) )
                    => /\ diskCache'[epoch] = Persisted(epoch)
                       /\ \E next \in BagToSet(calls') :
                             /\ next.pc = "install" /\ next.source = "disk"
                             /\ next.data = buildDataset(epoch)
              /\ ( call.pc = "load" /\ Moved(call) /\ diskCache[epoch] = Truncated(epoch) )
                    => /\ diskCache'[epoch] = NoFile
                       /\ \E next \in BagToSet(calls') :
                             /\ next.pc = "build" /\ next.fileAtLoad = Truncated(epoch)
              /\ ( call.pc = "build" /\ Moved(call) /\ cacheDir )
                    => diskCache'[epoch] = Persisted(epoch)
              /\ ( /\ call.pc = "install" /\ Moved(call)
                   /\ datasets[epoch] = NoData
                   /\ call.fileAtLoad \in { Persisted(epoch), Truncated(epoch) } )
                    => /\ returned'.data = buildDataset(epoch)
                       /\ returned'.source =
                             IF call.fileAtLoad = Persisted(epoch) THEN "disk" ELSE "build"
                       /\ datasets'[epoch] = buildDataset(epoch) ]_vars

\* A goroutine that found the truncated file has rebuilt the epoch and the
\* full-size file is on disk again.
C16_Witness ==
    \E call \in BagToSet(calls) :
        /\ call.pc = "install"
        /\ call.source = "build"
        /\ call.fileAtLoad = Truncated(call.epoch)
        /\ call.data = buildDataset(call.epoch)
        /\ diskCache[call.epoch] = Persisted(call.epoch)
        /\ datasets[call.epoch] = NoData

\* The round trip itself: an epoch dropped from memory came back from disk.
RoundTripSeen ==
    /\ returned.called
    /\ returned.source = "disk"
    /\ returned.data = buildDataset(returned.epoch)

\* C17: the in-memory map never holds more than maxCachedDatasets datasets.
C17_ResidencyBounded ==
    Cardinality(Resident(datasets)) <= maxCachedDatasets

\* C17 is refuted by requests in descending order of epoch: the smallest
\* resident epoch is then the one just installed, and nothing is evicted.
C17_DescendingInstalls ==
    ~ ( /\ Cardinality(Resident(datasets)) > maxCachedDatasets
        /\ returned.called
        /\ \A e \in Resident(datasets) : returned.epoch <= e )

(***************************************************************************)
(* Off-session budget (core/olivetum_offsession_budget.go): per sender the *)
(* management account stores the window of the last accepted spend and the *)
(* amount spent in it.                                                     *)
(***************************************************************************)
Day == 24 * 3600
Thursday == 4
Sunday == 0
Monday == 1

offSessionBudgetWindow_MondayApart(ts) ==
    LET local   == ts + tzOffset
        weekday == (Thursday + (local \div Day)) % 7
        hour    == (local % Day) \div 3600
        window  == (local \div Day) * Day
    IN  IF local < 0 THEN 0
        ELSE IF weekday # Sunday /\ hour >= 12 /\ hour < 24 THEN 0
        ELSE window

\* offSessionBudgetWindow(ts): zero in session hours, else the start of the
\* day, Monday morning counting to Sunday.
offSessionBudgetWindow(ts) ==
    LET local   == ts + tzOffset
        weekday == (Thursday + (local \div Day)) % 7
        hour    == (local % Day) \div 3600
        window  == (local \div Day) * Day
    IN  IF local < 0 THEN 0
        ELSE IF weekday # Sunday /\ hour >= 12 /\ hour < 24 THEN 0
        ELSE IF weekday = Monday /\ hour < 12
             THEN (IF window - Day < 0 THEN 0 ELSE window - Day)
        ELSE window

Olivo(n) == BigMulSmall(Ether, n)

\* Thursday 00:00 and 12:00, Sunday 13:00 and Monday 00:00 of the first
\* week.
BudgetTimes == { 0, 12 * 3600, 3 * Day + 13 * 3600, 4 * Day }
BudgetAmounts == { BigZero, Olivo(3), Olivo(5), Olivo(7) }
BudgetLimits == { BigZero, Olivo(10) }

UpdateOffSessionBudget_WindowUnchecked(amount, now) ==
    IF BigIsZero(amount) \/ BigIsZero(offLimit)
    THEN [ err |-> "nil", window |-> budgetWindow, spent |-> budgetSpent ]
    ELSE LET window == offSessionBudgetWindow(now)
             next   == BigAdd(budgetSpent, amount)
         IN  IF BigLt(offLimit, next)
             THEN [ err |-> "ErrOverMaxOffSessionBudget",
                    window |-> budgetWindow, spent |-> budgetSpent ]
             ELSE [ err |-> "nil", window |-> window, spent |-> next ]

\* UpdateOffSessionBudget(s, addr, amount, now): the error and the slots of
\* addr afterwards.
UpdateOffSessionBudget(amount, now) ==
    IF BigIsZero(amount) \/ BigIsZero(offLimit)
    THEN [ err |-> "nil", window |-> budgetWindow, spent |-> budgetSpent ]
    ELSE LET window == offSessionBudgetWindow(now)
             spent  == IF budgetWindow # window THEN BigZero ELSE budgetSpent
             next   == BigAdd(spent, amount)
         IN  IF BigLt(offLimit, next)
             THEN [ err |-> "ErrOverMaxOffSessionBudget",
                    window |-> budgetWindow, spent |-> budgetSpent ]
             ELSE [ err |-> "nil", window |-> window, spent |-> next ]

BudgetInit ==
    /\ tzOffset \in { 0, 0 - 3600 }
    /\ offLimit \in BudgetLimits
    /\ budgetWindow = 0 /\ budgetSpent = BigZero
    /\ budgetLog = << >>
    /\ DiffIdle /\ SupplyIdle /\ SealIdle /\ ImportIdle /\ VerifyIdle /\ MirrorIdle /\ DecodeIdle /\ RemoteIdle /\ HoldingIdle /\ EconomyIdle /\ DividendIdle /\ AdmissionIdle /\ DatasetIdle
    /\ RewardIdle

\* One off-session spend of the sender is admitted or refused.
UpdateBudget(amount, now) ==
    /\ Len(budgetLog) < MaxUpdates
    /\ LET r == UpdateOffSessionBudget(amount, now)
       IN  /\ budgetWindow' = r.window
           /\ budgetSpent' = r.spent
           /\ budgetLog' = Append(budgetLog,
                  [ amount |-> amount, now |-> now, err |-> r.err ])
    /\ UNCHANGED << tzOffset, offLimit >>
    /\ UNCHANGED notBudgetVars

BudgetNext ==
    \E amount \in BudgetAmounts, now \in BudgetTimes : UpdateBudget(amount, now)

SpecBudget == BudgetInit /\ [][BudgetNext]_vars

\* The spend the log ends with, and what the claim calls spentInWindow
\* before it.
LastUpdate == budgetLog'[Len(budgetLog')]
SpentInWindow(now) ==
    IF budgetWindow = offSessionBudgetWindow(now) THEN budgetSpent ELSE BigZero

\* The limit is 10 Olivo and the whole history is 7, 5 and 3 Olivo in one
\* window.
SevenFiveThree ==
    /\ offLimit = Olivo(10)
    /\ Len(budgetLog) = 3
    /\ budgetLog[1].amount = Olivo(7)
    /\ budgetLog[2].amount = Olivo(5)
    /\ budgetLog[3].amount = Olivo(3)
    /\ \A i \in 2..3 : offSessionBudgetWindow(budgetLog[i].now)
                           = offSessionBudgetWindow(budgetLog[1].now)

SevenFiveThreeOutcome ==
    SevenFiveThree =>
        /\ budgetLog[1].err = "nil"
        /\ budgetLog[2].err = "ErrOverMaxOffSessionBudget"
        /\ budgetLog[3].err = "nil"
        /\ budgetSpent = Olivo(10)

\* C20 as stated: every amount, zero included, is accepted exactly when
\* spentInWindow + amount is at most the limit, and an accepted spend stores
\* the window of now and spentInWindow + amount.
C20_EveryAmountStored ==
    [][ ~BigIsZero(offLimit) =>
          LET u    == LastUpdate
              sum  == BigAdd(SpentInWindow(u.now), u.amount)
          IN  /\ (u.err = "nil") <=> BigLe(sum, offLimit)
              /\ u.err = "nil" =>
                    /\ budgetWindow' = offSessionBudgetWindow(u.now)
                    /\ budgetSpent' = sum
              /\ u.err # "nil" =>
                    /\ u.err = "ErrOverMaxOffSessionBudget"
                    /\ UNCHANGED << budgetWindow, budgetSpent >> ]_vars

\* C20: with a limit above zero, a spend of more than zero is accepted
\* exactly when spentInWindow + amount is at most the limit (equality
\* accepted); accepted, it stores the window of now and spentInWindow +
\* amount; refused, it returns the over-off-session-budget error and leaves
\* the stored window and spent as they were; a spend of zero is accepted and
\* stores nothing.  With a limit of 10 Olivo in one window, 7 is accepted,
\* then 5 is refused, then 3 is accepted.
C20_BudgetStep ==
    [][ ~BigIsZero(offLimit) =>
          LET u    == LastUpdate
              sum  == BigAdd(SpentInWindow(u.now), u.amount)
          IN  IF BigIsZero(u.amount)
              THEN /\ u.err = "nil"
                   /\ UNCHANGED << budgetWindow, budgetSpent >>
              ELSE /\ (u.err = "nil") <=> BigLe(sum, offLimit)
                   /\ u.err = "nil" =>
                         /\ budgetWindow' = offSessionBudgetWindow(u.now)
                         /\ budgetSpent' = sum
                   /\ u.err # "nil" =>
                         /\ u.err = "ErrOverMaxOffSessionBudget"
                         /\ UNCHANGED << budgetWindow, budgetSpent >> ]_vars

C20_OffSessionBudget == C20_BudgetStep /\ []SevenFiveThreeOutcome

C20_Witness ==
    /\ SevenFiveThree
    /\ budgetLog[2].err = "ErrOverMaxOffSessionBudget"
    /\ budgetLog[3].err = "nil"
    /\ budgetWindow # 0
    /\ budgetSpent = Olivo(10)

\* ---------------------------------------------------------------------
\* The administrator changes offSessionMaxPerTx between the spends.

\* Values DecodeOffSessionMaxPerTx admits: multiples of 0.0001 Olivo from
\* 0.0001 to 10000 Olivo.
AdminLimits == { Olivo(5), Olivo(10) }

\* SetOffSessionMaxPerTx(s, amount): the limit slot and the process-wide
\* limit are written; no address's window or spent slot is touched.
SetOffSessionMaxPerTx(amount) ==
    /\ Len(budgetLog) < MaxUpdates
    /\ offLimit' = amount
    /\ budgetLog' = Append(budgetLog,
           [ amount |-> amount, now |-> 0, err |-> "SetOffSessionMaxPerTx" ])
    /\ UNCHANGED << tzOffset, budgetWindow, budgetSpent >>
    /\ UNCHANGED notBudgetVars

BudgetAdminNext ==
    \/ BudgetNext
    \/ \E amount \in AdminLimits : SetOffSessionMaxPerTx(amount)

SpecBudgetAdmin == BudgetInit /\ [][BudgetAdminNext]_vars

\* GetOffSessionBudgetSpent(s, addr, now): the stored spent when the stored
\* window is the window of now, else zero.
GetOffSessionBudgetSpent(now) ==
    IF budgetWindow # offSessionBudgetWindow(now) THEN BigZero ELSE budgetSpent

\* C21: in every reachable state the amount recorded as spent in the
\* address's current window is at most the current offSessionMaxPerTx,
\* whatever spends, window changes and administrator changes of the limit
\* came before.
C21_SpentWithinLimit ==
    \A now \in BudgetTimes : BigLe(GetOffSessionBudgetSpent(now), offLimit)

\* ---------------------------------------------------------------------
\* Sessions and off-session windows.

\* IsSession(ts): the local weekday is not Sunday and the local hour is
\* from 12 to 23.  time.Unix takes a local time before 1970 as well.
IsSession(ts) ==
    LET local   == ts + tzOffset
        weekday == (Thursday + (local \div Day)) % 7
        hour    == (local % Day) \div 3600
    IN  IF weekday = Sunday THEN FALSE ELSE hour >= 12 /\ hour < 24

\* Offsets DecodeSessionTzOffset admits (from -24 h to +24 h).
SessionOffsets == { 0, 0 - 3600, 19800, 0 - 50400 }

\* Midnight, the last second of the morning, noon and the last second of
\* the day, on Thursday 1, Saturday 3, Sunday 4, Monday 5, Tuesday 6 and
\* Sunday 11 January 1970; and 10:00 on Sunday 3, Monday 4 and Tuesday 5
\* March 2024.
SessionTimes ==
    { d * Day + h : d \in { 0, 2, 3, 4, 5, 10 },
                    h \in { 0, 12 * 3600 - 1, 12 * 3600, Day - 1 } }
    \cup { (19785 + k) * Day + 10 * 3600 : k \in 0..2 }

SessionInit ==
    /\ tzOffset \in SessionOffsets
    /\ offLimit = Olivo(10)
    /\ budgetWindow = 0 /\ budgetSpent = BigZero
    /\ budgetLog = << >>
    /\ DiffIdle /\ SupplyIdle /\ SealIdle /\ ImportIdle /\ VerifyIdle /\ MirrorIdle /\ DecodeIdle /\ RemoteIdle /\ HoldingIdle /\ EconomyIdle /\ DividendIdle /\ AdmissionIdle /\ DatasetIdle
    /\ RewardIdle

\* A transfer of 7 Olivo at the block time now.
SessionSpend(now) ==
    /\ Len(budgetLog) < MaxSpends
    /\ UpdateBudget(Olivo(7), now)

SessionNext == \E now \in SessionTimes : SessionSpend(now)

SpecSession == SessionInit /\ [][SessionNext]_vars

\* Seconds since Sunday 00:00 local; Sunday 4 January 1970 is day 3.
SinceSunday(ts) == (ts + tzOffset - 3 * Day) % (7 * Day)

\* Local Monday to Saturday, 12:00 to 24:00.
WeekdayAfternoon(ts) ==
    SinceSunday(ts) >= Day /\ SinceSunday(ts) % Day >= 12 * 3600

\* The local start of the contiguous off-session interval ts lies in:
\* Sunday 00:00 for Sunday and Monday morning, else 00:00 of the day.
OffInterval(ts) ==
    LET local == ts + tzOffset
    IN  IF SinceSunday(ts) < Day + 12 * 3600
        THEN local - SinceSunday(ts)
        ELSE local - (local % Day)

LoggedTimes == { budgetLog[i].now : i \in 1..Len(budgetLog) }

\* The last logged spend was accepted at an off-session time; until a
\* later write the spent reads as stored inside that off-session interval
\* and as zero in every other one.
KeptWithinInterval(times) ==
    Len(budgetLog) > 0 =>
        LET u == budgetLog[Len(budgetLog)]
        IN  (u.err = "nil" /\ ~IsSession(u.now) /\ u.now \in times) =>
                /\ budgetSpent # BigZero
                /\ \A t \in times :
                       ~IsSession(t) =>
                          GetOffSessionBudgetSpent(t) =
                             IF OffInterval(t) = OffInterval(u.now)
                             THEN budgetSpent ELSE BigZero

SessionWindows(logged, times) ==
    /\ \A t \in logged : IsSession(t) <=> WeekdayAfternoon(t)
    /\ \A t1, t2 \in logged :
           (~IsSession(t1) /\ ~IsSession(t2)) =>
              ( offSessionBudgetWindow(t1) = offSessionBudgetWindow(t2)
                  <=> OffInterval(t1) = OffInterval(t2) )
    /\ KeptWithinInterval(times)

\* C22 as stated: with a fixed offset, IsSession holds exactly for local
\* Monday to Saturday 12:00-24:00; two off-session timestamps have the same
\* window start exactly when they lie in the same contiguous off-session
\* interval, Sunday 00:00 to Monday 12:00 being one interval; a spend made
\* in an interval stays recorded for the whole interval and no longer.
C22_EveryTimestamp == SessionWindows(LoggedTimes, SessionTimes)

\* C22: the same for timestamps whose local time is not before
\* 1970-01-01 00:00.
C22_SessionWindows ==
    SessionWindows({ t \in LoggedTimes : t + tzOffset >= 0 },
                   { t \in SessionTimes : t + tzOffset >= 0 })

\* Sunday 10:00: 7 Olivo accepted; Monday 10:00: 7 Olivo more refused.
C22_Witness ==
    /\ tzOffset = 0
    /\ Len(budgetLog) = 2
    /\ budgetLog[1].now = 19785 * Day + 10 * 3600
    /\ budgetLog[2].now = 19786 * Day + 10 * 3600
    /\ budgetLog[1].err = "nil"
    /\ budgetLog[2].err = "ErrOverMaxOffSessionBudget"
    /\ budgetWindow = 19785 * Day
    /\ budgetSpent = Olivo(7)

(***************************************************************************)
(* Admission specification: the per-sender transaction rate limit, the     *)
(* administrators of the management contracts and the payload shape of a   *)
(* transaction.                                                            *)
(***************************************************************************)

GatedContracts ==
    { "BurnContract", "GasLimitContract", "PeriodContract",
      "MinTxAmountContract", "TxRateLimitContract",
      "OffSessionTxRateContract", "OffSessionMaxPerTxContract",
      "SessionTzContract" }
Recipients == GatedContracts \cup { "DividendContract", "0x100" }

\* managementAdminFor(addr): the administrator of a gated contract.
managementAdminFor(addr) ==
    CASE addr = "BurnContract" -> [ admin |-> admins.BurnAdmin, ok |-> TRUE ]
      [] addr = "GasLimitContract" ->
             [ admin |-> admins.GasLimitAdmin, ok |-> TRUE ]
      [] addr = "PeriodContract" ->
             [ admin |-> admins.PeriodAdmin, ok |-> TRUE ]
      [] addr = "MinTxAmountContract" ->
             [ admin |-> admins.MinTxAmountAdmin, ok |-> TRUE ]
      [] addr = "TxRateLimitContract" ->
             [ admin |-> admins.TxRateLimitAdmin, ok |-> TRUE ]
      [] addr = "OffSessionTxRateContract" ->
             [ admin |-> admins.OffSessionAdmin, ok |-> TRUE ]
      [] addr = "OffSessionMaxPerTxContract" ->
             [ admin |-> admins.OffSessionAdmin, ok |-> TRUE ]
      [] addr = "SessionTzContract" ->
             [ admin |-> admins.SessionTzAdmin, ok |-> TRUE ]
      [] OTHER -> [ admin |-> "0x0", ok |-> FALSE ]

publicManagementTargets == { "DividendContract" }

IsAuthorizedManagementTx_DividendGated(from, to) ==
    IF to = "DividendContract" THEN from = admins.DividendAdmin
    ELSE IF managementAdminFor(to).ok THEN from = managementAdminFor(to).admin
    ELSE TRUE

IsAuthorizedManagementTx(from, to) ==
    IF to \in publicManagementTargets THEN TRUE
    ELSE IF managementAdminFor(to).ok THEN from = managementAdminFor(to).admin
    ELSE TRUE

IsTxRateLimitExempt_AnyDividendData(from, to, data) ==
    CASE to = "BurnContract" -> from = admins.BurnAdmin
      [] to = "DividendContract" -> from = admins.DividendAdmin
      [] to = "GasLimitContract" -> from = admins.GasLimitAdmin
      [] to = "PeriodContract" -> from = admins.PeriodAdmin
      [] to = "MinTxAmountContract" -> from = admins.MinTxAmountAdmin
      [] to = "TxRateLimitContract" -> from = admins.TxRateLimitAdmin
      [] to \in { "OffSessionTxRateContract", "OffSessionMaxPerTxContract" } ->
             from = admins.OffSessionAdmin
      [] to = "SessionTzContract" -> from = admins.SessionTzAdmin
      [] OTHER -> FALSE

IsTxRateLimitExempt(from, to, data) ==
    CASE to = "BurnContract" -> from = admins.BurnAdmin
      [] to = "DividendContract" ->
             from = admins.DividendAdmin /\ Len(data) = 1
      [] to = "GasLimitContract" -> from = admins.GasLimitAdmin
      [] to = "PeriodContract" -> from = admins.PeriodAdmin
      [] to = "MinTxAmountContract" -> from = admins.MinTxAmountAdmin
      [] to = "TxRateLimitContract" -> from = admins.TxRateLimitAdmin
      [] to \in { "OffSessionTxRateContract", "OffSessionMaxPerTxContract" } ->
             from = admins.OffSessionAdmin
      [] to = "SessionTzContract" -> from = admins.SessionTzAdmin
      [] OTHER -> FALSE

ValidateOlivetumTxPayload_DividendDataFromAnyone(from, to, value, data, accessList, economyForkActive) ==
    IF ~economyForkActive THEN "nil"
    ELSE IF Len(accessList) > 0 THEN "ErrTxAccessListNotAllowed"
    ELSE CASE to = "DividendContract" ->
                 IF value # 0 THEN "ErrTxValueNotAllowed"
                 ELSE IF Len(data) = 0 THEN "nil"
                 ELSE IF Len(data) = 1 THEN "nil"
                 ELSE "ErrTxDataNotAllowed"
           [] to \in { "BurnContract", "GasLimitContract", "PeriodContract",
                       "TxRateLimitContract", "OffSessionTxRateContract" } ->
                 IF value # 0 THEN "ErrTxValueNotAllowed"
                 ELSE IF Len(data) # 1 THEN "ErrTxDataLengthInvalid"
                 ELSE "nil"
           [] to \in { "MinTxAmountContract", "OffSessionMaxPerTxContract" } ->
                 IF value # 0 THEN "ErrTxValueNotAllowed"
                 ELSE IF Len(data) # 8 THEN "ErrTxDataLengthInvalid"
                 ELSE "nil"
           [] to = "SessionTzContract" ->
                 IF value # 0 THEN "ErrTxValueNotAllowed"
                 ELSE IF Len(data) # 4 THEN "ErrTxDataLengthInvalid"
                 ELSE "nil"
           [] OTHER ->
                 IF Len(data) # 0 THEN "ErrTxDataNotAllowed" ELSE "nil"

ValidateOlivetumTxPayload(from, to, value, data, accessList, economyForkActive) ==
    IF ~economyForkActive THEN "nil"
    ELSE IF Len(accessList) > 0 THEN "ErrTxAccessListNotAllowed"
    ELSE CASE to = "DividendContract" ->
                 IF value # 0 THEN "ErrTxValueNotAllowed"
                 ELSE IF Len(data) = 0 THEN "nil"
                 ELSE IF Len(data) = 1 /\ from = admins.DividendAdmin THEN "nil"
                 ELSE "ErrTxDataNotAllowed"
           [] to \in { "BurnContract", "GasLimitContract", "PeriodContract",
                       "TxRateLimitContract", "OffSessionTxRateContract" } ->
                 IF value # 0 THEN "ErrTxValueNotAllowed"
                 ELSE IF Len(data) # 1 THEN "ErrTxDataLengthInvalid"
                 ELSE "nil"
           [] to \in { "MinTxAmountContract", "OffSessionMaxPerTxContract" } ->
                 IF value # 0 THEN "ErrTxValueNotAllowed"
                 ELSE IF Len(data) # 8 THEN "ErrTxDataLengthInvalid"
                 ELSE "nil"
           [] to = "SessionTzContract" ->
                 IF value # 0 THEN "ErrTxValueNotAllowed"
                 ELSE IF Len(data) # 4 THEN "ErrTxDataLengthInvalid"
                 ELSE "nil"
           [] OTHER ->
                 IF Len(data) # 0 THEN "ErrTxDataNotAllowed" ELSE "nil"

GetTxAllowance_HourIgnored(addr, now) ==
    LET limit == IF ~IsSession(now) THEN offSessionTxRate ELSE txRateLimit
        u     == txUsage[addr]
    IN  IF u.Epoch # txRateEpoch THEN limit
        ELSE IF u.Count >= limit THEN 0
        ELSE limit - u.Count

\* GetTxAllowance(s, addr, now): how many more transactions of addr the
\* hour admits.
GetTxAllowance(addr, now) ==
    LET limit == IF ~IsSession(now) THEN offSessionTxRate ELSE txRateLimit
        u     == txUsage[addr]
    IN  IF u.Epoch # txRateEpoch \/ Uint64Sub(now, u.Start) >= 3600 THEN limit
        ELSE IF u.Count >= limit THEN 0
        ELSE limit - u.Count

\* Limits DecodeTxRateLimit and DecodeOffSessionTxRate admit (1 to 100).
TxLimits == { 1, 2 }

\* Monday 5 January 1970 23:30, Tuesday 00:10, 00:40 and 13:00.
TxTimes ==
    { 4 * Day + 23 * 3600 + 1800, 5 * Day + 600, 5 * Day + 2400,
      5 * Day + 13 * 3600 }

\* SetTxRateLimit(s, limit): the session limit is stored and
\* ResetTxRateUsage advances the epoch.
SetTxRateLimit(limit) ==
    /\ txEvents < MaxTxEvents
    /\ txRateLimit' = limit
    /\ txRateEpoch' = txRateEpoch + 1
    /\ txEvents' = txEvents + 1
    /\ UNCHANGED << offSessionTxRate, txUsage, headTime, admins, lastTx >>
    /\ UNCHANGED notAdmissionVars

\* SetOffSessionTxRate(s, limit): the same for the off-session limit.
SetOffSessionTxRate(limit) ==
    /\ txEvents < MaxTxEvents
    /\ offSessionTxRate' = limit
    /\ txRateEpoch' = txRateEpoch + 1
    /\ txEvents' = txEvents + 1
    /\ UNCHANGED << txRateLimit, txUsage, headTime, admins, lastTx >>
    /\ UNCHANGED notAdmissionVars

\* The usage of a sender after one more counted transaction at now: the
\* count starts again at 1 in a new epoch or after an hour.
ConsumeTxSlot(u, now) ==
    IF u.Epoch # txRateEpoch \/ Uint64Sub(now, u.Start) >= 3600
    THEN [ Count |-> 1, Start |-> now, Epoch |-> txRateEpoch ]
    ELSE [ u EXCEPT !.Count = u.Count + 1 ]

\* Before the economy fork a transfer of the administrator is admitted
\* with its count at the limit.
AdminBeforeFork(from, economyForkActive) ==
    ~economyForkActive /\ from = admins.TxRateLimitAdmin

\* The admission checks of the state transition on one transaction at the
\* head time: management access, payload shape, then the rate limit.
AdmissionError(tx) ==
    IF ~IsAuthorizedManagementTx(tx.from, tx.to)
    THEN "ErrUnauthorizedManagementTx"
    ELSE LET shape == ValidateOlivetumTxPayload(tx.from, tx.to, tx.value,
                          tx.data, tx.accessList, tx.fork)
         IN  IF shape # "nil" THEN shape
             ELSE IF /\ ~IsTxRateLimitExempt(tx.from, tx.to, tx.data)
                     /\ ~AdminBeforeFork(tx.from, tx.fork)
                     /\ GetTxAllowance(tx.from, headTime) = 0
                  THEN "ErrRateLimit"
             ELSE "nil"

AdmitTx(tx) ==
    /\ LET err == AdmissionError(tx)
       IN  /\ lastTx' = [ tx EXCEPT !.err = err ]
           /\ txUsage' =
                 IF /\ err = "nil"
                    /\ ~IsTxRateLimitExempt(tx.from, tx.to, tx.data)
                    /\ ~AdminBeforeFork(tx.from, tx.fork)
                 THEN [ txUsage EXCEPT
                          ![tx.from] = ConsumeTxSlot(txUsage[tx.from], headTime) ]
                 ELSE txUsage
    /\ UNCHANGED << txRateLimit, offSessionTxRate, txRateEpoch, headTime,
                    admins >>

Tx(from, to, value, data, accessList, fork) ==
    [ from |-> from, to |-> to, value |-> value, data |-> data,
      accessList |-> accessList, fork |-> fork, err |-> "none" ]

\* An ordinary transfer after the economy fork.
Transfer(from) ==
    /\ txEvents < MaxTxEvents
    /\ AdmitTx(Tx(from, "0x100", 1, << >>, << >>, TRUE))
    /\ txEvents' = txEvents + 1
    /\ UNCHANGED notAdmissionVars

\* The next block is later than the head.
AdvanceTime(t) ==
    /\ txEvents < MaxTxEvents
    /\ t > headTime
    /\ headTime' = t
    /\ txEvents' = txEvents + 1
    /\ UNCHANGED << txRateLimit, offSessionTxRate, txRateEpoch, txUsage,
                    admins, lastTx >>
    /\ UNCHANGED notAdmissionVars

TxRateInit ==
    /\ txRateLimit \in TxLimits
    /\ offSessionTxRate \in TxLimits
    /\ txRateEpoch = 0
    /\ txUsage = [ a \in Senders |-> NoUsage ]
    /\ headTime = 4 * Day + 23 * 3600 + 1800
    /\ admins = DefaultAdmins
    /\ lastTx = NoTx
    /\ txEvents = 0
    /\ DiffIdle /\ SupplyIdle /\ SealIdle /\ ImportIdle /\ VerifyIdle /\ MirrorIdle /\ DecodeIdle /\ RemoteIdle /\ HoldingIdle /\ EconomyIdle /\ DividendIdle /\ BudgetIdle
    /\ DatasetIdle /\ RewardIdle

TxRateNext ==
    \/ \E limit \in TxLimits : SetTxRateLimit(limit)
    \/ \E limit \in TxLimits : SetOffSessionTxRate(limit)
    \/ \E from \in { "0x17a9", "user" } : Transfer(from)
    \/ \E t \in TxTimes : AdvanceTime(t)

SpecTxRate == TxRateInit /\ [][TxRateNext]_vars

ApplicableLimit(now) ==
    IF WeekdayAfternoon(now) THEN txRateLimit ELSE offSessionTxRate

AllowanceAsClaimed(addr, now) ==
    LET u == txUsage[addr]
    IN  IF u.Epoch # txRateEpoch \/ now - u.Start >= 3600
        THEN ApplicableLimit(now)
        ELSE IF ApplicableLimit(now) - u.Count > 0
             THEN ApplicableLimit(now) - u.Count ELSE 0

\* C23: for every block time now from the head on, GetTxAllowance(addr,
\* now) is the applicable limit (the session limit in session hours, else
\* the off-session limit) when the usage epoch
\* of addr differs from the tx-rate epoch or an hour has passed since the
\* usage start, and max(0, limit - count) otherwise; SetTxRateLimit and
\* SetOffSessionTxRate advance the epoch by one, after which every sender
\* has the full limit again.
C23_TxAllowance ==
    /\ [](\A addr \in Senders, now \in TxTimes :
            now >= headTime =>
               GetTxAllowance(addr, now) = AllowanceAsClaimed(addr, now))
    /\ [][ (txRateLimit' # txRateLimit \/ offSessionTxRate' # offSessionTxRate
              \/ txRateEpoch' # txRateEpoch) =>
             /\ txRateEpoch' = txRateEpoch + 1
             /\ UNCHANGED txUsage
             /\ \A addr \in Senders, now \in TxTimes :
                    now >= headTime =>
                       GetTxAllowance(addr, now)' = ApplicableLimit(now)' ]_vars

\* Two transfers at Monday 23:30 under a session limit of 2; at Tuesday
\* 00:10, off-session with a limit of 1, the sender has no allowance left.
C23_Witness ==
    /\ txRateLimit = 2 /\ offSessionTxRate = 1
    /\ txUsage["user"] = [ Count |-> 2, Start |-> 4 * Day + 23 * 3600 + 1800,
                           Epoch |-> txRateEpoch ]
    /\ headTime = 5 * Day + 600
    /\ GetTxAllowance("user", headTime) = 0

\* ---------------------------------------------------------------------
\* One transaction of any shape against a sender whose count is zero or at
\* the limit.

AdminTables ==
    { DefaultAdmins,
      [ DefaultAdmins EXCEPT !.TxRateLimitAdmin = "key" ],
      [ DefaultAdmins EXCEPT !.DividendAdmin = "key" ] }

DataShapes ==
    { << >>, << 0 >>, << 0, 0 >>, << 0, 0, 0, 0 >>,
      << 0, 0, 0, 0, 0, 0, 0, 0 >> }

TxShapes ==
    { Tx(from, to, value, data, accessList, fork) :
        from \in Senders, to \in Recipients, value \in { 0, 1 },
        data \in DataShapes, accessList \in { << >>, << "0x2" >> },
        fork \in BOOLEAN }

\* Monday 4 March 2024 13:00, a session hour; the limit is 1 and every
\* sender has used none or all of it in this hour.
AdmissionInit ==
    /\ txRateLimit = 1
    /\ offSessionTxRate = offSessionTxRateDefault
    /\ txRateEpoch = 0
    /\ headTime = 19786 * Day + 13 * 3600
    /\ \E count \in { 0, 1 } :
          txUsage = [ a \in Senders |->
                        [ Count |-> count, Start |-> headTime, Epoch |-> 0 ] ]
    /\ admins \in AdminTables
    /\ lastTx = NoTx
    /\ txEvents = 0
    /\ DiffIdle /\ SupplyIdle /\ SealIdle /\ ImportIdle /\ VerifyIdle /\ MirrorIdle /\ DecodeIdle /\ RemoteIdle /\ HoldingIdle /\ EconomyIdle /\ DividendIdle /\ BudgetIdle
    /\ DatasetIdle /\ RewardIdle

CheckTx(tx) ==
    /\ lastTx = NoTx
    /\ AdmitTx(tx)
    /\ UNCHANGED txEvents
    /\ UNCHANGED notAdmissionVars

AdmissionNext == \E tx \in TxShapes : CheckTx(tx)

SpecAdmission == AdmissionInit /\ [][AdmissionNext]_vars

\* The administrator the claims give each gated contract.
AdminRoleOf ==
    "BurnContract" :> "BurnAdmin" @@ "GasLimitContract" :> "GasLimitAdmin"
    @@ "PeriodContract" :> "PeriodAdmin"
    @@ "MinTxAmountContract" :> "MinTxAmountAdmin"
    @@ "TxRateLimitContract" :> "TxRateLimitAdmin"
    @@ "OffSessionTxRateContract" :> "OffSessionAdmin"
    @@ "OffSessionMaxPerTxContract" :> "OffSessionAdmin"
    @@ "SessionTzContract" :> "SessionTzAdmin"

FromItsAdmin(tx) ==
    tx.to \in GatedContracts /\ tx.from = admins[AdminRoleOf[tx.to]]

ExemptAsClaimed(tx) ==
    \/ FromItsAdmin(tx)
    \/ /\ tx.to = "DividendContract"
       /\ tx.from = admins.DividendAdmin
       /\ Len(tx.data) = 1

\* What a step does to the rate limit of the sender of tx, for a
\* transaction that passed the access and payload checks: an exempt one is
\* admitted and counted nowhere; any other is refused when the sender has
\* no allowance and takes one slot when it has.
RateLimitStep(tx) ==
    /\ IsTxRateLimitExempt(tx.from, tx.to, tx.data) <=> ExemptAsClaimed(tx)
    /\ tx.err \in { "nil", "ErrRateLimit" } =>
          IF ExemptAsClaimed(tx)
          THEN tx.err = "nil" /\ UNCHANGED txUsage
          ELSE IF GetTxAllowance(tx.from, headTime) = 0
               THEN tx.err = "ErrRateLimit" /\ UNCHANGED txUsage
               ELSE /\ tx.err = "nil"
                    /\ txUsage'[tx.from].Count = txUsage[tx.from].Count + 1
                    /\ \A a \in Senders \ { tx.from } :
                           txUsage'[a] = txUsage[a]

\* C24 as stated: a transaction is exempt from the rate limit exactly when
\* it goes to a gated management contract from that contract's
\* administrator, or to the dividend contract from the dividend
\* administrator with exactly one byte of data; every other transaction
\* takes one slot.
C24_EveryTransaction == [][ RateLimitStep(lastTx') ]_vars

\* C24: the same once the economy fork is active.
C24_ExemptAfterFork == [][ lastTx'.fork => RateLimitStep(lastTx') ]_vars

\* The dividend administrator's claim, with empty data, took a slot.
C24_Witness ==
    /\ lastTx # NoTx
    /\ lastTx.fork
    /\ lastTx.to = "DividendContract"
    /\ lastTx.from = admins.DividendAdmin
    /\ lastTx.data = << >>
    /\ lastTx.err = "nil"
    /\ txUsage[lastTx.from].Count = 1

\* C25: IsAuthorizedManagementTx(from, to) is false exactly when to is
\* one of the eight gated management contracts and from is not that
\* contract's administrator; the dividend contract and every other address
\* are open to every sender.
C25_ManagementAccess ==
    lastTx # NoTx =>
       ( ~IsAuthorizedManagementTx(lastTx.from, lastTx.to)
            <=> (lastTx.to \in GatedContracts /\ ~FromItsAdmin(lastTx)) )

\* A stranger's transaction to the min-tx contract is refused.
C25_Witness ==
    /\ lastTx # NoTx
    /\ lastTx.to = "MinTxAmountContract"
    /\ lastTx.from = "user"
    /\ ~IsAuthorizedManagementTx(lastTx.from, lastTx.to)
    /\ lastTx.err = "ErrUnauthorizedManagementTx"

\* The data length each gated contract takes.
DataLengthOf ==
    "BurnContract" :> 1 @@ "GasLimitContract" :> 1 @@ "PeriodContract" :> 1
    @@ "TxRateLimitContract" :> 1 @@ "OffSessionTxRateContract" :> 1
    @@ "MinTxAmountContract" :> 8 @@ "OffSessionMaxPerTxContract" :> 8
    @@ "SessionTzContract" :> 4

ShapeAsClaimed(tx) ==
    IF ~tx.fork THEN TRUE
    ELSE /\ tx.accessList = << >>
         /\ IF tx.to \in GatedContracts
            THEN tx.value = 0 /\ Len(tx.data) = DataLengthOf[tx.to]
            ELSE IF tx.to = "DividendContract"
            THEN /\ tx.value = 0
                 /\ \/ tx.data = << >>
                    \/ Len(tx.data) = 1 /\ tx.from = admins.DividendAdmin
            ELSE tx.data = << >>

DivTimes ==
    { 100 * Day + d : d \in { 0, 12 * 3600, claimWindow, claimWindow + 1,
                               dividendInterval - 1, dividendInterval,
                               dividendInterval + 12 * 3600 } }

\* The wall clock against the block time: 16 s behind, equal, an hour
\* ahead.
Clocks(now) == { now - 16, now, now + 3600 }

\* A claimant with 1000 Olivo never seen by the dividend code, and one whose
\* 1000 Olivo are held since 29.5 days before day 100.
DividendLedgers ==
    { [ NoLedger EXCEPT !.balance = Olivo(1000) ],
      [ NoLedger EXCEPT !.balance = Olivo(1000),
                        !.holding = [ held |-> Olivo(1000),
                                      holdingTime |-> 100 * Day + 12 * 3600
                                                        - dividendQualify,
                                      recent |-> << >> ] ] }

DividendInit ==
    /\ divLedger \in DividendLedgers
    /\ divNow = 100 * Day
    /\ divRate \in { dividendOptions[1], dividendOptions[2] }
    /\ divBurn \in { 0, burnOptions[3] }
    /\ divMinted \in { BigZero, BigSub(maxSupplyWei, FromNat(1000)) }
    /\ divDividends = BigZero
    /\ divCoinbase = [ balance |-> BigZero, holding |-> NoHolding ]
    /\ divLast = NoClaim
    /\ divEvents = 0
    /\ DiffIdle /\ SupplyIdle /\ SealIdle /\ ImportIdle /\ VerifyIdle /\ MirrorIdle /\ DecodeIdle /\ RemoteIdle /\ HoldingIdle /\ EconomyIdle /\ AdmissionIdle
    /\ BudgetIdle /\ DatasetIdle /\ RewardIdle

\* A claim transaction of the claimant in a block of time divNow, applied
\* by a process whose clock reads real: ClaimDividend, then the dividend
\* counter and the tip of the coinbase.
ClaimTx(real) ==
    /\ divEvents < MaxDivEvents
    /\ LET r      == ClaimDividend(divLedger, divNow, real)
           reward == IF r.ok THEN BigSub(r.state.balance, divLedger.balance)
                     ELSE BigZero
           tip    == MintDividendClaimTip(divMinted, divBurn, reward)
       IN  /\ divLedger' = r.state
           /\ divDividends' = BigAdd(divDividends, reward)
           /\ divMinted' = BigAdd(divMinted, tip.minted)
           /\ divCoinbase' =
                 [ balance |-> BigAdd(divCoinbase.balance, tip.credited),
                   holding |-> AddHolding(divCoinbase.holding, tip.minted,
                                          divNow) ]
           /\ divLast' = [ op |-> "claim", ok |-> r.ok, now |-> divNow,
                           real |-> real, before |-> divLedger,
                           seq |-> divEvents + 1 ]
    /\ divEvents' = divEvents + 1
    /\ UNCHANGED << divNow, divRate, divBurn >>
    /\ UNCHANGED notDividendVars

\* A trigger transaction of the administrator.
TriggerTx(real) ==
    /\ divEvents < MaxDivEvents
    /\ LET r == TriggerDividend(divLedger, divNow, real, divRate)
       IN  /\ divLedger' = r.state
           /\ divLast' = [ op |-> "trigger", ok |-> r.ok, now |-> divNow,
                           real |-> real, before |-> divLedger,
                           seq |-> divEvents + 1 ]
    /\ divEvents' = divEvents + 1
    /\ UNCHANGED << divNow, divRate, divBurn, divMinted, divDividends,
                    divCoinbase >>
    /\ UNCHANGED notDividendVars

\* The next block is later than its parent.
NextBlockTime(t) ==
    /\ divEvents < MaxDivEvents
    /\ t > divNow
    /\ divNow' = t
    /\ divEvents' = divEvents + 1
    /\ UNCHANGED << divLedger, divRate, divBurn, divMinted, divDividends,
                    divCoinbase, divLast >>
    /\ UNCHANGED notDividendVars

DividendNext ==
    \/ \E real \in Clocks(divNow) : ClaimTx(real)
    \/ \E real \in Clocks(divNow) : TriggerTx(real)
    \/ \E t \in DivTimes : NextBlockTime(t)

SpecDividend == DividendInit /\ [][DividendNext]_vars

\* The step is a claim, or a trigger, that returned true.
ClaimSucceeded == divLast' # divLast /\ divLast'.op = "claim" /\ divLast'.ok
TriggerSucceeded ==
    divLast' # divLast /\ divLast'.op = "trigger" /\ divLast'.ok

\* The round of the ledger is active at now.
RoundActive(s, now) ==
    /\ s.roundRate # 0
    /\ now >= s.roundStart
    /\ now - s.roundStart <= claimWindow

\* What a successful claim needs apart from the wall clock, and what
\* keeps a round from being claimed twice.
ClaimNeeds ==
    /\ ClaimSucceeded =>
          /\ RoundActive(divLast'.before, divNow)
          /\ divLast'.before.claimedRound # divLast'.before.roundID
          /\ divNow - divLedger'.holding.holdingTime >= dividendQualify
          /\ divLedger'.claimedRound = divLedger'.roundID
    /\ (divLedger.claimedRound = divLedger.roundID
            /\ divLedger'.roundID = divLedger.roundID) =>
          divLedger'.claimedRound = divLedger'.roundID

WithinDrift(now, real) ==
    now <= real + maxTimestampDrift /\ real <= now + maxTimestampDrift

\* C27: a claim succeeds only if the round is active (rate not 0 and
\* 0 <= now - roundStart <= 24 h), the block time is within 15 s of the
\* wall clock on either side, the claimant has not claimed in the round and
\* the holding time is at least 30 days old; so a round is claimed at most
\* once by an address.
C27_ClaimOnlyIf ==
    [][ /\ ClaimNeeds
        /\ ClaimSucceeded => WithinDrift(divNow, divLast'.real) ]_vars

\* C27: the same with the block time at most 15 s ahead of the wall
\* clock, and behind it by any amount.
C27_ClaimNotAhead ==
    [][ /\ ClaimNeeds
        /\ ClaimSucceeded => divNow <= divLast'.real + maxTimestampDrift ]_vars

\* A round was claimed, and the claimant's next claim in the same round, in
\* a block an hour behind the wall clock, was refused.
C27_Witness ==
    /\ divLast # NoClaim
    /\ divLast.op = "claim" /\ ~divLast.ok
    /\ divLast.real = divNow + 3600
    /\ divLast.before.claimedRound = divLast.before.roundID
    /\ RoundActive(divLast.before, divNow)
    /\ divDividends # BigZero

\* The amounts C28 names, from the ledger before the claim.
HeldAmount(s, now) == matureRecent(bootstrapHolding(s).holding, now).held
RewardOf(s, now) == BigDivSmall(BigMulSmall(HeldAmount(s, now), s.roundRate), 10000)
TipOf(reward) ==
    BigDivSmall(
        BigMulSmall(BigDivSmall(BigMulSmall(reward, GetBurnRate(divBurn)), 10000),
                    25), 10000)
CappedTip(reward) ==
    IF BigLe(maxSupplyWei, divMinted) THEN BigZero
    ELSE BigMin(TipOf(reward), BigSub(maxSupplyWei, divMinted))

\* C28: a successful claim credits the claimant with reward =
\* floor(heldAmount * rate / 10000), adds it to the held amount, marks the
\* round as claimed and raises totalDividendsMinted by reward; the coinbase
\* is minted floor(floor(reward * burnRate / 10000) * 25 / 10000), capped
\* by the remaining supply, which is added to totalMinted and appended to
\* the holding queue of the coinbase.
C28_ClaimCredits ==
    [][ ClaimSucceeded =>
          LET b      == divLast'.before
              reward == RewardOf(b, divNow)
              tip    == CappedTip(reward)
          IN  /\ divLedger'.balance = BigAdd(b.balance, reward)
              /\ divLedger'.holding.held = BigAdd(HeldAmount(b, divNow), reward)
              /\ divLedger'.claimedRound = b.roundID
              /\ divDividends' = BigAdd(divDividends, reward)
              /\ divMinted' = BigAdd(divMinted, tip)
              /\ divCoinbase'.balance = BigAdd(divCoinbase.balance, tip)
              /\ ~BigIsZero(tip) =>
                    /\ Len(divCoinbase'.holding.recent) > 0
                    /\ divCoinbase'.holding.recent[
                           Len(divCoinbase'.holding.recent)]
                          = [ amt |-> tip, t |-> divNow ] ]_vars

\* 1000 Olivo at 50 bps and a burn rate of 150: the claimant has 1005
\* Olivo and the coinbase a tip of 187500000000000 wei.
C28_Witness ==
    /\ divLast # NoClaim
    /\ divLast.op = "claim" /\ divLast.ok
    /\ divLedger.balance = Olivo(1005)
    /\ divLedger.holding.held = Olivo(1005)
    /\ divDividends = Olivo(5)
    /\ divMinted = BigMulSmall(BigPow(10, 10), 18750)
    /\ divCoinbase.balance = divMinted
    /\ Len(divCoinbase.holding.recent) = 1

\* C29: a trigger succeeds only if 364 days have passed since the last
\* one (or there was none) and no round is active; it then stores the
\* current rate, sets roundStart and lastDividend to now and raises roundID
\* by one; a failed trigger leaves rate, roundStart, roundID and
\* lastDividend alone.  Rounds start at least 364 days apart and roundID
\* never falls.
C29_TriggerRound ==
    /\ [][ LET b == divLast'.before
           IN  /\ TriggerSucceeded =>
                     /\ b.lastDividend = 0
                          \/ divNow - b.lastDividend >= dividendInterval
                     /\ ~RoundActive(b, divNow)
                     /\ divLedger'.roundRate = divRate
                     /\ divLedger'.roundStart = divNow
                     /\ divLedger'.lastDividend = divNow
                     /\ divLedger'.roundID = b.roundID + 1
               /\ (divLast' # divLast /\ divLast'.op = "trigger"
                     /\ ~divLast'.ok) =>
                     /\ divLedger'.roundRate = b.roundRate
                     /\ divLedger'.roundStart = b.roundStart
                     /\ divLedger'.lastDividend = b.lastDividend
                     /\ divLedger'.roundID = b.roundID ]_vars
    /\ [][ /\ divLedger'.roundID >= divLedger.roundID
           /\ divLedger'.roundID # divLedger.roundID =>
                 \/ divLedger.roundID = 0
                 \/ divLedger'.roundStart - divLedger.roundStart
                       >= dividendInterval ]_vars

\* The second round, 364 days after the first.
C29_Witness ==
    /\ divLast # NoClaim
    /\ divLast.op = "trigger" /\ divLast.ok
    /\ divLedger.roundID = 2
    /\ divLedger.roundStart = 100 * Day + dividendInterval
    /\ divLast.before.roundStart = 100 * Day


(***************************************************************************)
(* Economy specification: value transfers and gas fees of the transactions *)
(* of successive blocks, the burn split of each and the burn counters of   *)
(* the reward vault.                                                       *)
(***************************************************************************)
\* big.Int.SetString on a decimal text, given in groups of four digits.
RECURSIVE SetString(_)
SetString(groups) ==
    IF groups = << >> THEN BigZero
    ELSE BigAdd(BigMulSmall(SetString(SubSeq(groups, 1, Len(groups) - 1)),
                            Base),
                FromNat(groups[Len(groups)]))

economyBaselineBurnedWei == SetString(<< 11, 6681, 2191, 931, 1970, 4612 >>)
economyBaselineBurnedTransfersWei == economyBaselineBurnedWei
economyBaselineBurnedGasWei == BigZero
economyBaselineMinerBurnShareWei == SetString(<< 292, 4341, 3310, 6045, 388 >>)

\* amount.Sign() == 0 returns before the slot is written; adding zero
\* leaves the total as it is either way.
AddTotalBurned(t, amount) ==
    IF BigIsZero(amount) THEN t
    ELSE [ t EXCEPT !.totalBurned = BigAdd(@, amount) ]

AddTotalBurnedTransfers(t, amount) ==
    IF BigIsZero(amount) THEN t
    ELSE [ t EXCEPT !.totalBurnedTransfers = BigAdd(@, amount) ]

AddTotalBurnedGas(t, amount) ==
    IF BigIsZero(amount) THEN t
    ELSE [ t EXCEPT !.totalBurnedGas = BigAdd(@, amount) ]

AddTotalMinerBurnShare(t, amount) ==
    IF BigIsZero(amount) THEN t
    ELSE [ t EXCEPT !.totalMinerBurnShare = BigAdd(@, amount) ]

\* Mutant of ApplyEconomyBaseline: the transfers counter gets no baseline.
ApplyEconomyBaseline_TransfersMissed(t, blockNumber, fork) ==
    IF fork = 0 \/ blockNumber # fork THEN t
    ELSE AddTotalMinerBurnShare(
             AddTotalBurnedGas(
                 AddTotalBurned(t, economyBaselineBurnedWei),
                 economyBaselineBurnedGasWei),
             economyBaselineMinerBurnShareWei)

ApplyEconomyBaseline(t, blockNumber, fork) ==
    IF fork = 0 \/ blockNumber # fork THEN t
    ELSE AddTotalMinerBurnShare(
             AddTotalBurnedGas(
                 AddTotalBurnedTransfers(
                     AddTotalBurned(t, economyBaselineBurnedWei),
                     economyBaselineBurnedTransfersWei),
                 economyBaselineBurnedGasWei),
             economyBaselineMinerBurnShareWei)

\* The burn of an amount and its split: the miner share is taken from the
\* burn at and after the burn-share fork block.
BurnSplit(amount, stored, number, shareFork) ==
    LET burn  == BigDivSmall(BigMulSmall(amount, GetBurnRate(stored)), 10000)
        share == IF number >= shareFork
                 THEN BigDivSmall(BigMulSmall(burn, MinerBurnShareBps), 10000)
                 ELSE BigZero
    IN  [ burn |-> burn, minerShare |-> share,
          netBurn |-> BigSub(burn, share) ]

EconomyForkActive(number, fork) == fork # 0 /\ number >= fork

\* Amounts a transaction moves: nothing, 399 wei, 100 Olivo; fees of 21000
\* gas at price 0 and 1000.
TransferValues == { BigZero, FromNat(399), Olivo(100) }
GasFees == { BigZero, FromNat(21000 * 1000) }
BlockTime(number) == 19786 * Day + 13 * 3600 + 15 * number

EconomyInit ==
    /\ ecoFork \in { 1, 2 }
    /\ ecoShareFork \in { 0, 2 }
    /\ ecoNumber = 1
    /\ ecoStored \in { 0, burnOptions[3] }
    /\ ecoBalances = [ from |-> Olivo(1000), to |-> BigZero,
                       coinbase |-> BigZero ]
    /\ ecoTotals = ApplyEconomyBaseline(NoTotals, 1, ecoFork)
    /\ ecoHolding = NoHolding
    /\ ecoLast = NoCharge
    /\ ecoEvents = 0
    /\ DiffIdle /\ SupplyIdle /\ SealIdle /\ ImportIdle /\ VerifyIdle /\ MirrorIdle /\ DecodeIdle /\ RemoteIdle /\ HoldingIdle
    /\ DividendIdle /\ AdmissionIdle /\ BudgetIdle /\ DatasetIdle /\ RewardIdle

\* The next block: the baseline is applied to the counters at the fork
\* block.
ProcessBlock ==
    /\ ecoEvents < MaxEcoEvents
    /\ ecoNumber' = ecoNumber + 1
    /\ ecoTotals' = ApplyEconomyBaseline(ecoTotals, ecoNumber + 1, ecoFork)
    /\ ecoEvents' = ecoEvents + 1
    /\ UNCHANGED << ecoFork, ecoShareFork, ecoStored, ecoBalances, ecoHolding,
                    ecoLast >>
    /\ UNCHANGED notEconomyVars

\* A transaction of the block that moves value and pays fee. The value is
\* burned at the burn rate; the fee is split the same way once the economy
\* fork is active and goes to the coinbase whole before; the counters are
\* kept once the fork is active.
TransitionDb(value, fee) ==
    /\ ecoEvents < MaxEcoEvents
    /\ BigLe(BigAdd(value, fee), ecoBalances.from)
    /\ LET active == EconomyForkActive(ecoNumber, ecoFork)
           v      == BurnSplit(value, ecoStored, ecoNumber, ecoShareFork)
           f      == IF active
                     THEN BurnSplit(fee, ecoStored, ecoNumber, ecoShareFork)
                     ELSE [ burn |-> BigZero, minerShare |-> BigZero,
                            netBurn |-> BigZero ]
           toMiner == BigAdd(v.minerShare, BigSub(fee, f.netBurn))
           t1     == AddTotalMinerBurnShare(
                         AddTotalBurnedTransfers(
                             AddTotalBurned(ecoTotals, v.netBurn), v.netBurn),
                         v.minerShare)
           t2     == AddTotalMinerBurnShare(
                         AddTotalBurnedGas(
                             AddTotalBurned(t1, f.netBurn), f.netBurn),
                         f.minerShare)
       IN  /\ ecoBalances' =
                 [ from |-> BigSub(ecoBalances.from, BigAdd(value, fee)),
                   to |-> BigAdd(ecoBalances.to, BigSub(value, v.burn)),
                   coinbase |-> BigAdd(ecoBalances.coinbase, toMiner) ]
           /\ ecoHolding' =
                 AddHolding(AddHolding(ecoHolding, v.minerShare,
                                       BlockTime(ecoNumber)),
                            BigSub(fee, f.netBurn), BlockTime(ecoNumber))
           /\ ecoTotals' = IF active THEN t2 ELSE ecoTotals
           /\ ecoLast' = [ op |-> "tx", value |-> value, fee |-> fee,
                           seq |-> ecoEvents + 1 ]
    /\ ecoEvents' = ecoEvents + 1
    /\ UNCHANGED << ecoFork, ecoShareFork, ecoNumber, ecoStored >>
    /\ UNCHANGED notEconomyVars

EconomyNext ==
    \/ ProcessBlock
    \/ \E value \in TransferValues, fee \in GasFees : TransitionDb(value, fee)

SpecEconomy == EconomyInit /\ [][EconomyNext]_vars

\* The burn-rate share of an amount and the miner's part of a burn, as
\* C30 names them.
BurnOf(amount) == BigDivSmall(BigMulSmall(amount, GetBurnRate(ecoStored)), 10000)
MinerShareOf(burn) ==
    IF ecoNumber >= ecoShareFork
    THEN BigDivSmall(BigMulSmall(burn, 25), 10000)
    ELSE BigZero

Charged == ecoLast' # ecoLast /\ ecoLast'.op = "tx"

InAccounts(b) == BigAdd(BigAdd(b.from, b.to), b.coinbase)

CountersAgree ==
    ecoTotals.totalBurned
        = BigAdd(ecoTotals.totalBurnedTransfers, ecoTotals.totalBurnedGas)

\* C30: for every value transfer and every gas fee charged after the
\* economy fork, with burn the burn-rate share of the amount, minerShare =
\* floor(burn * 25 / 10000) (none before the burn-share fork) and netBurn =
\* burn - minerShare: the sender is debited value and fee in full, the
\* recipient receives value - burn, the coinbase receives the miner share
\* of the value and the fee less its net burn, the net burns are credited
\* to nobody, and the counters grow by the net burns and the miner shares;
\* totalBurned = totalBurnedTransfers + totalBurnedGas in every reachable
\* state.
C30_BurnSplit ==
    /\ []CountersAgree
    /\ [][ \A value \in TransferValues, fee \in GasFees :
           (/\ Charged
            /\ ecoLast'.value = value /\ ecoLast'.fee = fee
            /\ EconomyForkActive(ecoNumber, ecoFork)) =>
             LET vBurn == BurnOf(value)
                 fBurn == BurnOf(fee)
                 vShare == MinerShareOf(vBurn)
                 fShare == MinerShareOf(fBurn)
                 vNet  == BigSub(vBurn, vShare)
                 fNet  == BigSub(fBurn, fShare)
                 net   == BigAdd(vNet, fNet)
             IN  /\ ecoBalances'.from
                       = BigSub(ecoBalances.from, BigAdd(value, fee))
                 /\ ecoBalances'.to
                       = BigAdd(ecoBalances.to, BigSub(value, vBurn))
                 /\ ecoBalances'.coinbase
                       = BigAdd(ecoBalances.coinbase,
                                BigAdd(vShare,
                                       BigAdd(BigSub(fee, fBurn), fShare)))
                 /\ BigAdd(InAccounts(ecoBalances'), net)
                       = InAccounts(ecoBalances)
                 /\ ecoTotals'.totalBurned
                       = BigAdd(ecoTotals.totalBurned, net)
                 /\ ecoTotals'.totalBurnedTransfers
                       = BigAdd(ecoTotals.totalBurnedTransfers, vNet)
                 /\ ecoTotals'.totalBurnedGas
                       = BigAdd(ecoTotals.totalBurnedGas, fNet)
                 /\ ecoTotals'.totalMinerBurnShare
                       = BigAdd(ecoTotals.totalMinerBurnShare,
                                BigAdd(vShare, fShare)) ]_vars

\* After the fork block, 100 Olivo were sent at a burn rate of 150 with a
\* fee of 21000000 wei: the recipient has 98.5 Olivo, and the counters hold
\* the baseline and the net burns of the value and of the fee.
C30_Witness ==
    /\ EconomyForkActive(ecoNumber, ecoFork)
    /\ ecoNumber >= ecoShareFork
    /\ ecoStored = 150
    /\ ecoLast # NoCharge
    /\ ecoLast.value = Olivo(100) /\ ecoLast.fee = FromNat(21000000)
    /\ ecoBalances.to = BigDivSmall(BigMulSmall(Olivo(100), 9850), 10000)
    /\ ecoTotals.totalBurnedGas = FromNat(315000 - 787)
    /\ ecoTotals.totalBurnedTransfers
          = BigAdd(economyBaselineBurnedTransfersWei,
                   BigSub(BigDivSmall(BigMulSmall(Ether, 3), 2),
                          BigDivSmall(BigMulSmall(Ether, 375), 10 * 10000)))
    /\ ecoTotals.totalMinerBurnShare # economyBaselineMinerBurnShareWei


(***************************************************************************)
(* Holding specification: AddHolding, RemoveHolding and matureRecent on    *)
(* the slots of one address (held amount, holding time, head and tail      *)
(* index, one amount and one time per queue index), at block times that    *)
(* never decrease. Amounts are big.Int values, modelled as integers.       *)
(***************************************************************************)
getRecentEntry(s, idx) == s.entries[idx]
setRecentEntry(s, idx, amt, t) ==
    [ s EXCEPT !.entries[idx] = [ amt |-> amt, t |-> t ] ]
clearRecentEntry(s, idx) == [ s EXCEPT !.entries[idx] = ZeroEntry ]

\* The loop of matureRecent from index head on; the head slot is written
\* after the loop, and only when an entry matured.
RECURSIVE matureLoop(_, _, _, _)
matureLoop(s, head, updatedHead, now) ==
    IF head >= s.tail
    THEN (IF updatedHead # s.head THEN [ s EXCEPT !.head = updatedHead ] ELSE s)
    ELSE LET e == getRecentEntry(s, head)
         IN  IF e.amt = 0
             THEN matureLoop(clearRecentEntry(s, head), head + 1, updatedHead,
                             now)
             ELSE IF Uint64Sub(now, e.t) < dividendQualify
             THEN (IF updatedHead # s.head
                   THEN [ s EXCEPT !.head = updatedHead ] ELSE s)
             ELSE matureLoop(
                      clearRecentEntry(
                          [ s EXCEPT !.held = @ + e.amt,
                                     !.holdingTime =
                                         IF s.held = 0 THEN e.t ELSE @ ],
                          head),
                      head + 1, head + 1, now)

\* Mutant of matureRecentSlots: every matured entry sets the holding time.
RECURSIVE matureLoop_TimeAlways(_, _, _, _)
matureLoop_TimeAlways(s, head, updatedHead, now) ==
    IF head >= s.tail
    THEN (IF updatedHead # s.head THEN [ s EXCEPT !.head = updatedHead ] ELSE s)
    ELSE LET e == getRecentEntry(s, head)
         IN  IF e.amt = 0
             THEN matureLoop_TimeAlways(clearRecentEntry(s, head), head + 1,
                                        updatedHead, now)
             ELSE IF Uint64Sub(now, e.t) < dividendQualify
             THEN (IF updatedHead # s.head
                   THEN [ s EXCEPT !.head = updatedHead ] ELSE s)
             ELSE matureLoop_TimeAlways(
                      clearRecentEntry(
                          [ s EXCEPT !.held = @ + e.amt, !.holdingTime = e.t ],
                          head),
                      head + 1, head + 1, now)

matureRecentSlots_TimeAlways(s, now) ==
    matureLoop_TimeAlways(s, s.head, s.head, now)

\* matureRecent on the slots.
matureRecentSlots(s, now) == matureLoop(s, s.head, s.head, now)

\* AddHolding on the slots.
AddHoldingSlots(s, amt, now) ==
    IF amt = 0 THEN s
    ELSE LET m == matureRecentSlots(s, now)
         IN  [ setRecentEntry(m, m.tail, amt, now) EXCEPT !.tail = m.tail + 1 ]

\* Mutant of removeLoop: an entry equal to the rest is reduced, not popped.
RECURSIVE removeLoop_ZeroLeft(_, _)
removeLoop_ZeroLeft(s, remaining) ==
    IF remaining = 0 \/ s.head >= s.tail
    THEN [ state |-> s, remaining |-> remaining ]
    ELSE LET idx == s.tail - 1
             e   == getRecentEntry(s, idx)
         IN  IF e.amt < remaining
             THEN removeLoop_ZeroLeft(
                      [ clearRecentEntry(s, idx) EXCEPT !.tail = idx ],
                      remaining - e.amt)
             ELSE [ state |-> setRecentEntry(s, idx, e.amt - remaining, e.t),
                    remaining |-> 0 ]

\* The loop of RemoveHolding: entries are taken from the tail.
RECURSIVE removeLoop(_, _)
removeLoop(s, remaining) ==
    IF remaining = 0 \/ s.head >= s.tail
    THEN [ state |-> s, remaining |-> remaining ]
    ELSE LET idx == s.tail - 1
             e   == getRecentEntry(s, idx)
         IN  IF e.amt = 0
             THEN removeLoop([ clearRecentEntry(s, idx) EXCEPT !.tail = idx ],
                             remaining)
             ELSE IF e.amt <= remaining
             THEN removeLoop([ clearRecentEntry(s, idx) EXCEPT !.tail = idx ],
                             remaining - e.amt)
             ELSE removeLoop(setRecentEntry(s, idx, e.amt - remaining, e.t), 0)

\* Mutant of RemoveHolding: the mature bucket is debited first.
RemoveHolding_HeldFirst(s, amt, now) ==
    IF amt = 0 THEN s
    ELSE LET m    == matureRecentSlots(s, now)
             debt == IF m.held <= amt THEN m.held ELSE amt
             r    == removeLoop([ m EXCEPT !.held = @ - debt ], amt - debt)
         IN  IF r.state.held = 0
             THEN [ r.state EXCEPT !.holdingTime = now ]
             ELSE r.state

RemoveHolding(s, amt, now) ==
    IF amt = 0 THEN s
    ELSE LET r == removeLoop(matureRecentSlots(s, now), amt)
         IN  IF r.state.held <= r.remaining
             THEN [ r.state EXCEPT !.held = 0, !.holdingTime = now ]
             ELSE [ r.state EXCEPT !.held = @ - r.remaining ]

\* Block times: a start, 10 and 20 s later, and 30 days after the start,
\* after the second and after the third of them.
HoldBase == 1000000
HoldTimes == { HoldBase, HoldBase + 10, HoldBase + 20,
               HoldBase + dividendQualify + 1,
               HoldBase + dividendQualify + 15,
               HoldBase + dividendQualify + 100 }
AddAmounts == { 10, 20 }
RemoveAmounts == { 5, 20, 35 }

\* An address never seen, or one with 50 held since time 0.
HoldingInit ==
    /\ slots \in { NoSlots, [ NoSlots EXCEPT !.held = 50 ] }
    /\ holdClock = HoldBase
    /\ holdLog = << >>
    /\ DiffIdle /\ SupplyIdle /\ SealIdle /\ ImportIdle /\ VerifyIdle /\ MirrorIdle /\ DecodeIdle /\ RemoteIdle
    /\ EconomyIdle /\ DividendIdle /\ AdmissionIdle /\ BudgetIdle
    /\ DatasetIdle /\ RewardIdle

HoldStep(op, amt, now) ==
    /\ Len(holdLog) < MaxHoldEvents
    /\ now >= holdClock
    /\ holdClock' = now
    /\ holdLog' = Append(holdLog, [ op |-> op, amt |-> amt, now |-> now ])

Add(amt, now) ==
    /\ HoldStep("add", amt, now)
    /\ slots' = AddHoldingSlots(slots, amt, now)
    /\ UNCHANGED notHoldingVars

Remove(amt, now) ==
    /\ HoldStep("remove", amt, now)
    /\ slots' = RemoveHolding(slots, amt, now)
    /\ UNCHANGED notHoldingVars

Mature(now) ==
    /\ HoldStep("mature", 0, now)
    /\ slots' = matureRecentSlots(slots, now)
    /\ UNCHANGED notHoldingVars

HoldingNext ==
    \E now \in HoldTimes :
        \/ \E amt \in AddAmounts : Add(amt, now)
        \/ \E amt \in RemoveAmounts : Remove(amt, now)
        \/ Mature(now)

SpecHolding == HoldingInit /\ [][HoldingNext]_vars

\* The amounts in the queue, from index i to the tail.
RECURSIVE SumFrom(_, _)
SumFrom(s, i) == IF i >= s.tail THEN 0 ELSE s.entries[i].amt + SumFrom(s, i + 1)
QueueSum(s) == SumFrom(s, s.head)
Least(a, b) == IF a <= b THEN a ELSE b

\* What RemoveHolding(amt) at now makes of the slots as the scan left them:
\* entries go from the tail, older ones stay, the bucket pays the rest.
TakenFromTail(b, after, amt) ==
    LET covered == Least(amt, QueueSum(b))
    IN  /\ after.head = b.head
        /\ after.tail <= b.tail /\ after.tail >= b.head
        /\ \A i \in b.head .. after.tail - 2 : after.entries[i] = b.entries[i]
        /\ after.tail > b.head =>
              LET i == after.tail - 1
              IN  /\ after.entries[i].t = b.entries[i].t
                  /\ after.entries[i].amt > 0
                  /\ after.entries[i].amt <= b.entries[i].amt
        /\ QueueSum(b) - QueueSum(after) = covered
        /\ b.held - after.held = Least(b.held, amt - covered)

RemoveIsLifo ==
    \A amt \in RemoveAmounts, now \in HoldTimes :
        holdLog' = Append(holdLog, [ op |-> "remove", amt |-> amt, now |-> now ])
            => TakenFromTail(matureRecentSlots(slots, now), slots', amt)

\* AddHolding(a); AddHolding(b); RemoveHolding(b) were the calls so far.
AddAddRemove ==
    /\ Len(holdLog) = 3
    /\ holdLog[1].op = "add" /\ holdLog[2].op = "add"
    /\ holdLog[3].op = "remove" /\ holdLog[3].amt = holdLog[2].amt

OnlyFirstQueued ==
    /\ slots.tail = slots.head + 1
    /\ slots.entries[slots.head] = [ amt |-> holdLog[1].amt, t |-> holdLog[1].now ]

\* C31: RemoveHolding takes the most recent immature deposits first: it
\* pops or reduces entries from the tail of the queue, leaves amounts and
\* times of older entries unchanged and debits the mature bucket only with
\* what the queue could not cover; AddHolding(a); AddHolding(b);
\* RemoveHolding(b) leaves the queue with only entry a.
C31_RemoveLifo ==
    /\ [](AddAddRemove => OnlyFirstQueued)
    /\ [][RemoveIsLifo]_vars

\* C31: the same, with entry a younger than 30 days when b is removed.
C31_RemoveLifoImmature ==
    /\ []((AddAddRemove /\ holdLog[3].now - holdLog[1].now < dividendQualify)
             => OnlyFirstQueued)
    /\ [][RemoveIsLifo]_vars

\* 10 were added, 20 ten seconds later, and 20 removed ten seconds after
\* that: the queue holds the 10 alone, and the 50 held before are intact.
C31_Witness ==
    /\ AddAddRemove
    /\ holdLog[1] = [ op |-> "add", amt |-> 10, now |-> HoldBase ]
    /\ holdLog[2].now = HoldBase + 10
    /\ holdLog[3].now = HoldBase + 20
    /\ slots.head = 0 /\ slots.tail = 1
    /\ slots.entries[0] = [ amt |-> 10, t |-> HoldBase ]
    /\ slots.held = 50

\* The first index from i on whose entry is younger than 30 days at now,
\* or the tail.
RECURSIVE FirstYounger(_, _, _)
FirstYounger(s, i, now) ==
    IF i >= s.tail THEN s.tail
    ELSE IF now - s.entries[i].t < dividendQualify THEN i
    ELSE FirstYounger(s, i + 1, now)

RECURSIVE SumBetween(_, _, _)
SumBetween(s, i, k) ==
    IF i >= k THEN 0 ELSE s.entries[i].amt + SumBetween(s, i + 1, k)

\* What the scan at now makes of the slots s, as C32 says it.
Scanned(s, after, now) ==
    LET k == FirstYounger(s, s.head, now)
    IN  /\ after.head = k
        /\ after.held = s.held + SumBetween(s, s.head, k)
        /\ after.holdingTime = IF s.held = 0 /\ k > s.head
                               THEN s.entries[s.head].t
                               ELSE s.holdingTime
        /\ \A i \in k .. s.tail - 1 : after.entries[i] = s.entries[i]
        /\ \A i \in s.head .. k - 1 : after.entries[i] = ZeroEntry

ScanStep ==
    \A now \in HoldTimes :
        /\ holdLog' = Append(holdLog, [ op |-> "mature", amt |-> 0, now |-> now ])
              => Scanned(slots, slots', now) /\ slots'.tail = slots.tail
        /\ \A amt \in AddAmounts :
              holdLog' = Append(holdLog, [ op |-> "add", amt |-> amt, now |-> now ])
                  => /\ Scanned(slots, slots', now)
                     /\ slots'.tail = slots.tail + 1
                     /\ slots'.entries[slots.tail] = [ amt |-> amt, t |-> now ]
        /\ \A amt \in RemoveAmounts :
              holdLog' = Append(holdLog, [ op |-> "remove", amt |-> amt, now |-> now ])
                  => slots'.head = FirstYounger(slots, slots.head, now)

\* C32: the scan at the start of AddHolding, RemoveHolding and a claim moves
\* into the mature bucket exactly the entries at the head of the queue that
\* are at least 30 days old at now, in queue order, and stops at the first
\* younger entry; the holding time becomes the moved entry's time only when
\* the mature bucket was empty, and younger entries keep amount and time.
C32_MatureScan == [][ScanStep]_vars

\* 10 were added at the start and 20 twenty seconds later; one
\* second after day 30 of the first the scan has moved the 10 alone: head 1,
\* tail 2, held 10 since the start.
C32_Witness ==
    /\ Len(holdLog) = 3
    /\ holdLog[1] = [ op |-> "add", amt |-> 10, now |-> HoldBase ]
    /\ holdLog[2] = [ op |-> "add", amt |-> 20, now |-> HoldBase + 20 ]
    /\ holdLog[3] = [ op |-> "mature", amt |-> 0,
                      now |-> HoldBase + dividendQualify + 1 ]
    /\ slots.held = 10 /\ slots.holdingTime = HoldBase
    /\ slots.head = 1 /\ slots.tail = 2
    /\ slots.entries[1] = [ amt |-> 20, t |-> HoldBase + 20 ]

\* What the dividend code tracks for the address: the mature bucket and
\* the queue.
Tracked(s) == s.held + QueueSum(s)

QueueInOrder ==
    /\ slots.head <= slots.tail
    /\ \A i \in slots.head .. slots.tail - 1 : slots.entries[i].amt > 0
    /\ \A i \in slots.head .. slots.tail - 2 :
          slots.entries[i].t <= slots.entries[i + 1].t
    /\ Tracked(slots) >= 0

TrackedStep ==
    \A now \in HoldTimes :
        /\ holdLog' = Append(holdLog, [ op |-> "mature", amt |-> 0, now |-> now ])
              => Tracked(slots') = Tracked(slots)
        /\ \A amt \in AddAmounts :
              holdLog' = Append(holdLog, [ op |-> "add", amt |-> amt, now |-> now ])
                  => Tracked(slots') = Tracked(slots) + amt
        /\ \A amt \in RemoveAmounts :
              holdLog' = Append(holdLog, [ op |-> "remove", amt |-> amt, now |-> now ])
                  => Tracked(slots') = Tracked(slots) - Least(amt, Tracked(slots))

\* C37: over AddHolding, RemoveHolding and scans at times that never
\* decrease, held plus the queue amounts grows by amt on AddHolding(amt),
\* falls by min(amt, tracked total) on RemoveHolding(amt), is unchanged by a
\* scan and is never negative; head <= tail, every entry from head to tail
\* has a positive amount, and the times do not decrease from head to tail.
C37_TrackedTotal ==
    /\ []QueueInOrder
    /\ [][TrackedStep]_vars

\* 20 and 10 were added to an address with nothing held and 35 removed:
\* the queue is empty again and nothing is tracked.
C37_Witness ==
    /\ Len(holdLog) = 3
    /\ holdLog[1] = [ op |-> "add", amt |-> 20, now |-> HoldBase ]
    /\ holdLog[2] = [ op |-> "add", amt |-> 10, now |-> HoldBase + 10 ]
    /\ holdLog[3] = [ op |-> "remove", amt |-> 35, now |-> HoldBase + 20 ]
    /\ slots.head = 0 /\ slots.tail = 0
    /\ Tracked(slots) = 0
    /\ slots.holdingTime = HoldBase + 20


(***************************************************************************)
(* Remote sealer specification: the loop of the remote sealer serves       *)
(* sealing tasks, work-for requests, submitted solutions and the pruning   *)
(* ticker one at a time; the receivers of the results channels take what   *)
(* they were sent.                                                         *)
(***************************************************************************)
staleThreshold == 7

\* Sealing blocks of heights 1 and 8, and a seal hash no work has.
RemoteBlock(n) ==
    [ number |-> n, time |-> 15 * n, difficulty |-> FromNat(MinimumDifficulty),
      nonce |-> 0, mixDigest |-> EmptyHash ]
RemoteBlocks == { RemoteBlock(1), RemoteBlock(1 + staleThreshold) }
UnknownSealHash == << FromNat(MinimumDifficulty), 0, 1 >>
SealHashes == { SealHash(b) : b \in RemoteBlocks } \cup { UnknownSealHash }

\* works[sealhash], NoWork for nil.
WorkOf(works, sealhash) ==
    IF \E b \in works : SealHash(b) = sealhash
    THEN CHOOSE b \in works : SealHash(b) = sealhash
    ELSE NoWork

\* makeWork on the sealer: the block becomes the current one and is stored
\* under its seal hash.
makeWorkOn(works, block) ==
    { b \in works : SealHash(b) # SealHash(block) } \cup { block }

pruneStale(works, current) ==
    IF current = NoWork THEN works
    ELSE { b \in works : ~(b.number + 7 <= current.number) }

\* submitWork: the outcome and the block sent, if one is.
submitWork(nonce, mixDigest, sealhash) ==
    LET block  == WorkOf(rsWorks, sealhash)
        sealed == WithSeal(block, nonce, mixDigest)
        no     == [ ok |-> FALSE, sent |-> NoWork ]
    IN  IF rsCurrent = NoWork THEN no
        ELSE IF block = NoWork THEN no
        ELSE IF verifySeal(sealed) # "nil" THEN no
        ELSE IF rsResults = "nil" THEN no
        ELSE IF Len(rsChans[rsResults]) >= resultsCap THEN no
        ELSE [ ok |-> TRUE, sent |-> sealed ]

RemoteInit ==
    /\ rsWorks = { }
    /\ rsCurrent = NoWork
    /\ rsResults = "nil"
    /\ rsRegistered = << >>
    /\ rsChans = [ c \in Channels |-> << >> ]
    /\ rsLast = NoSubmit
    /\ rsEvents = 0
    /\ fakeFull = FALSE /\ wallClock = 0 /\ ticks = 0
    /\ oracle = [ n \in Nonces |-> IF n = 0 THEN "hit" ELSE "miss" ]
    /\ work = NoWork /\ sealPc = "idle"
    /\ hashes = NoHashes /\ mineTarget = BigZero
    /\ threadPc = [ t \in Threads |-> "off" ]
    /\ threadNonce = [ t \in Threads |-> 0 ]
    /\ found = << >> /\ deliverPc = "off"
    /\ stop = FALSE /\ abort = FALSE
    /\ remote = NoRemote /\ results = << >>
    /\ exitCh = FALSE /\ resultsCap = 1
    /\ DiffIdle /\ SupplyIdle /\ ImportIdle /\ VerifyIdle /\ MirrorIdle /\ DecodeIdle /\ HoldingIdle
    /\ EconomyIdle /\ DividendIdle /\ AdmissionIdle /\ BudgetIdle
    /\ DatasetIdle /\ RewardIdle

\* The work and the channel that came with it are taken over together.
Register(block, ch) ==
    /\ rsResults' = ch
    /\ rsCurrent' = block
    /\ rsWorks' = makeWorkOn(rsWorks, block)
    /\ rsRegistered' =
          [ h \in DOMAIN rsRegistered \cup { SealHash(block) } |->
              IF h = SealHash(block) THEN ch ELSE rsRegistered[h] ]

\* case work := <-s.workCh: a sealing task sent by Seal.
SetSealingBlock(block, ch) ==
    /\ rsEvents < MaxRemoteEvents
    /\ Register(block, ch)
    /\ rsEvents' = rsEvents + 1
    /\ UNCHANGED << rsChans, rsLast >>
    /\ UNCHANGED notRemoteVars

\* case req := <-s.fetchWorkForCh, the producer returning block and
\* channel; the work package is the reply.
FetchWorkFor(block, ch) ==
    /\ rsEvents < MaxRemoteEvents
    /\ Register(block, ch)
    /\ rsLast' = [ op |-> "work", sealhash |-> SealHash(block),
                   seq |-> rsEvents + 1 ]
    /\ rsEvents' = rsEvents + 1
    /\ UNCHANGED rsChans
    /\ UNCHANGED notRemoteVars

\* case result := <-s.submitWorkCh. goodMix: the miner sends the mix digest
\* the hash gives for the nonce.
SubmitSolution(nonce, goodMix, sealhash) ==
    /\ rsEvents < MaxRemoteEvents
    /\ LET mix == IF goodMix THEN computeSeal(sealhash, nonce).mix
                  ELSE << "forged" >>
           r   == submitWork(nonce, mix, sealhash)
       IN  /\ rsChans' = IF r.ok
                         THEN [ rsChans EXCEPT ![rsResults] =
                                    Append(@, r.sent) ]
                         ELSE rsChans
           /\ rsLast' = [ op |-> "submit", ok |-> r.ok, sealhash |-> sealhash,
                          nonce |-> nonce, mix |-> mix,
                          seq |-> rsEvents + 1 ]
    /\ rsEvents' = rsEvents + 1
    /\ UNCHANGED << rsWorks, rsCurrent, rsResults, rsRegistered >>
    /\ UNCHANGED notRemoteVars

\* case <-ticker.C
PruneTick ==
    /\ rsEvents < MaxRemoteEvents
    /\ rsWorks' = pruneStale(rsWorks, rsCurrent)
    /\ rsEvents' = rsEvents + 1
    /\ UNCHANGED << rsCurrent, rsResults, rsRegistered, rsChans, rsLast >>
    /\ UNCHANGED notRemoteVars

\* The receiver of a results channel takes a block.
Receive(ch) ==
    /\ rsEvents < MaxRemoteEvents
    /\ rsChans[ch] # << >>
    /\ rsChans' = [ rsChans EXCEPT ![ch] = Tail(@) ]
    /\ rsEvents' = rsEvents + 1
    /\ UNCHANGED << rsWorks, rsCurrent, rsResults, rsRegistered, rsLast >>
    /\ UNCHANGED notRemoteVars

RemoteNext ==
    \/ \E block \in RemoteBlocks, ch \in Channels : SetSealingBlock(block, ch)
    \/ \E block \in RemoteBlocks, ch \in Channels : FetchWorkFor(block, ch)
    \/ \E nonce \in Nonces, goodMix \in BOOLEAN, sealhash \in SealHashes :
          SubmitSolution(nonce, goodMix, sealhash)
    \/ PruneTick
    \/ \E ch \in Channels : Receive(ch)

SpecRemote == RemoteInit /\ [][RemoteNext]_vars

Submitted == rsLast' # rsLast /\ rsLast'.op = "submit"

\* C33: SubmitWork returns true only if the seal hash names a stored work
\* that is not stale (its number is greater than the current work's height
\* - 7), nonce and mix digest pass verifySeal for that block, and the sealed
\* block was handed to the results channel.
C33_SubmitOnlyIf ==
    [][ (Submitted /\ rsLast'.ok) =>
          LET block == WorkOf(rsWorks, rsLast'.sealhash)
          IN  /\ block # NoWork
              /\ block.number + staleThreshold > rsCurrent.number
              /\ verifySeal(WithSeal(block, rsLast'.nonce, rsLast'.mix)) = "nil"
              /\ \E c \in Channels :
                    rsChans'[c] = Append(rsChans[c],
                        WithSeal(block, rsLast'.nonce, rsLast'.mix)) ]_vars

\* C38: a solution accepted for a work package is delivered on the results
\* channel that was registered together with that work package.
C38_OwnChannel ==
    [][ (Submitted /\ rsLast'.ok) =>
          LET c == rsRegistered[rsLast'.sealhash]
          IN  Len(rsChans'[c]) = Len(rsChans[c]) + 1 ]_vars


(***************************************************************************)
(* Decoder specification: a management payload is a sequence of bytes; each *)
(* decoder of package params is applied to it.                             *)
(***************************************************************************)
\* big.Int.Mul.
RECURSIVE BigMul(_, _)
BigMul(a, b) ==
    IF b = << >> THEN << >>
    ELSE BigAdd(BigMulSmall(a, Head(b)),
                IF BigMul(a, Tail(b)) = << >> THEN << >>
                ELSE << 0 >> \o BigMul(a, Tail(b)))

\* big.Int.SetBytes and binary.BigEndian.Uint64 followed by SetUint64: the
\* bytes as a big-endian unsigned integer.
RECURSIVE SetBytes(_)
SetBytes(data) ==
    IF data = << >> THEN BigZero
    ELSE BigAdd(BigMulSmall(SetBytes(SubSeq(data, 1, Len(data) - 1)), 256),
                FromNat(data[Len(data)]))

\* int32(binary.BigEndian.Uint32(data)): the top bit is the sign.
Int32BE_Unsigned(data) ==
    IF data[1] >= 128 THEN 2147483647
    ELSE ((data[1] * 256 + data[2]) * 256 + data[3]) * 256 + data[4]

Int32BE(data) ==
    IF data[1] >= 128
    THEN (((((data[1] - 128) * 256 + data[2]) * 256 + data[3]) * 256
              + data[4]) - 2147483647) - 1
    ELSE ((data[1] * 256 + data[2]) * 256 + data[3]) * 256 + data[4]

MinTxAmountMin == BigDivSmall(Ether, 1000)
MinTxAmountMax == BigMul(FromNat(100), Ether)
OffSessionMaxPerTxMin == BigDivSmall(Ether, 10000)
OffSessionMaxPerTxMax == BigMul(FromNat(10000), Ether)
TxRateLimitMin == 1
TxRateLimitMax == 100
OffSessionTxRateMin == 1
OffSessionTxRateMax == 100

DecodeGasLimit(data) ==
    IF Len(data) # 1 THEN [ value |-> 0, ok |-> FALSE ]
    ELSE [ value |-> data[1] * 1000000, ok |-> TRUE ]

DecodeBlockPeriod(data) ==
    IF Len(data) # 1 THEN [ value |-> 0, ok |-> FALSE ]
    ELSE IF data[1] = 0 \/ data[1] > 60 THEN [ value |-> 0, ok |-> FALSE ]
    ELSE [ value |-> data[1], ok |-> TRUE ]

DecodeTxRateLimit(data) ==
    IF Len(data) # 1 THEN [ value |-> 0, ok |-> FALSE ]
    ELSE IF data[1] < TxRateLimitMin \/ data[1] > TxRateLimitMax
         THEN [ value |-> 0, ok |-> FALSE ]
    ELSE [ value |-> data[1], ok |-> TRUE ]

DecodeOffSessionTxRate(data) ==
    IF Len(data) # 1 THEN [ value |-> 0, ok |-> FALSE ]
    ELSE IF data[1] < OffSessionTxRateMin \/ data[1] > OffSessionTxRateMax
         THEN [ value |-> 0, ok |-> FALSE ]
    ELSE [ value |-> data[1], ok |-> TRUE ]

DecodeMinTxAmount(data) ==
    IF Len(data) # 8 THEN [ value |-> BigZero, ok |-> FALSE ]
    ELSE LET val == BigMul(SetBytes(data), MinTxAmountMin)
         IN  IF BigLt(val, MinTxAmountMin) \/ BigLt(MinTxAmountMax, val)
             THEN [ value |-> BigZero, ok |-> FALSE ]
             ELSE [ value |-> val, ok |-> TRUE ]

DecodeOffSessionMaxPerTx(data) ==
    IF Len(data) # 8 THEN [ value |-> BigZero, ok |-> FALSE ]
    ELSE LET val == BigMul(SetBytes(data), OffSessionMaxPerTxMin)
         IN  IF BigLt(val, OffSessionMaxPerTxMin)
                   \/ BigLt(OffSessionMaxPerTxMax, val)
             THEN [ value |-> BigZero, ok |-> FALSE ]
             ELSE [ value |-> val, ok |-> TRUE ]

DecodeSessionTzOffset_Unsigned(data) ==
    IF Len(data) # 4 THEN [ value |-> 0, ok |-> FALSE ]
    ELSE LET v == Int32BE_Unsigned(data)
         IN  IF v < -86400 \/ v > 86400 THEN [ value |-> 0, ok |-> FALSE ]
             ELSE [ value |-> v, ok |-> TRUE ]

DecodeSessionTzOffset(data) ==
    IF Len(data) # 4 THEN [ value |-> 0, ok |-> FALSE ]
    ELSE LET v == Int32BE(data)
         IN  IF v < -86400 \/ v > 86400 THEN [ value |-> 0, ok |-> FALSE ]
             ELSE [ value |-> v, ok |-> TRUE ]

\* Payloads: every single byte, runs of one byte of every length, the
\* big-endian forms of the numbers at the bounds in four to MaxPayloadLen
\* bytes, and the two's complement forms of the offsets at the bounds.
RECURSIVE BytesBE(_, _)
BytesBE(n, len) ==
    IF len = 0 THEN << >> ELSE BytesBE(n \div 256, len - 1) \o << n % 256 >>

TwosBE(v) ==
    IF v >= 0 THEN BytesBE(v, 4)
    ELSE LET low == BytesBE((v + 2147483647) + 1, 4)
         IN  << low[1] + 128 >> \o Tail(low)

BoundNumbers ==
    { 0, 1, 2, 60, 61, 100, 101, 255, 256, 99999, 100000, 100001,
      99999999, 100000000, 100000001 }
BoundOffsets ==
    { -2147483647, -86401, -86400, -3600, -1, 0, 1, 3600, 86400, 86401,
      2147483647 }
Payloads ==
    { << b >> : b \in 0 .. 255 }
        \cup { [ i \in 1 .. len |-> b ] :
                 len \in 0 .. MaxPayloadLen, b \in { 0, 1, 128, 255 } }
        \cup { BytesBE(n, len) : n \in BoundNumbers, len \in 4 .. MaxPayloadLen }
        \cup { BytesBE(n, 7) \o << 0 >> : n \in BoundNumbers }
        \cup { TwosBE(v) : v \in BoundOffsets }

DecodeInit ==
    /\ decData \in Payloads
    /\ decOut = NoDecode
    /\ DiffIdle /\ SupplyIdle /\ SealIdle /\ ImportIdle /\ VerifyIdle /\ MirrorIdle
    /\ RemoteIdle /\ HoldingIdle /\ EconomyIdle /\ DividendIdle
    /\ AdmissionIdle /\ BudgetIdle /\ DatasetIdle /\ RewardIdle

Decoded(fn, r) == [ fn |-> fn, ok |-> r.ok, value |-> r.value ]

GasLimit ==
    /\ decOut' = Decoded("DecodeGasLimit", DecodeGasLimit(decData))
    /\ UNCHANGED decData
    /\ UNCHANGED notDecodeVars

BlockPeriod ==
    /\ decOut' = Decoded("DecodeBlockPeriod", DecodeBlockPeriod(decData))
    /\ UNCHANGED decData
    /\ UNCHANGED notDecodeVars

TxRateLimit ==
    /\ decOut' = Decoded("DecodeTxRateLimit", DecodeTxRateLimit(decData))
    /\ UNCHANGED decData
    /\ UNCHANGED notDecodeVars

OffSessionTxRate ==
    /\ decOut' = Decoded("DecodeOffSessionTxRate", DecodeOffSessionTxRate(decData))
    /\ UNCHANGED decData
    /\ UNCHANGED notDecodeVars

MinTxAmount ==
    /\ decOut' = Decoded("DecodeMinTxAmount", DecodeMinTxAmount(decData))
    /\ UNCHANGED decData
    /\ UNCHANGED notDecodeVars

OffSessionMaxPerTx ==
    /\ decOut' = Decoded("DecodeOffSessionMaxPerTx", DecodeOffSessionMaxPerTx(decData))
    /\ UNCHANGED decData
    /\ UNCHANGED notDecodeVars

SessionTzOffset ==
    /\ decOut' = Decoded("DecodeSessionTzOffset", DecodeSessionTzOffset(decData))
    /\ UNCHANGED decData
    /\ UNCHANGED notDecodeVars

DecodeNext ==
    \/ GasLimit
    \/ BlockPeriod
    \/ TxRateLimit
    \/ OffSessionTxRate
    \/ MinTxAmount
    \/ OffSessionMaxPerTx
    \/ SessionTzOffset

SpecDecode == DecodeInit /\ [][DecodeNext]_vars

\* The number N that eight bytes spell when it is below 2^31, else -1.
NumberOf(data) ==
    IF \E i \in 1 .. 4 : data[i] # 0 THEN -1
    ELSE IF data[5] >= 128 THEN -1
    ELSE data[5] * 16777216 + data[6] * 65536 + data[7] * 256 + data[8]

\* The offset four bytes spell when it is within 24 bits of zero.
OffsetOf(data) ==
    LET low == data[2] * 65536 + data[3] * 256 + data[4]
    IN  IF data[1] = 0 THEN low
        ELSE IF data[1] = 255 THEN low - 16777216
        ELSE 16777216

DecodesByte(lo, hi) ==
    /\ decOut.ok <=> (Len(decData) = 1 /\ decData[1] \in lo .. hi)
    /\ decOut.ok => decOut.value = decData[1]

DecodesAmount(max, perOlivo) ==
    /\ decOut.ok <=> (Len(decData) = 8 /\ NumberOf(decData) \in 1 .. max)
    /\ decOut.ok =>
          /\ decOut.value =
                BigDivSmall(BigMul(Ether, FromNat(NumberOf(decData))), perOlivo)
          /\ BigLe(BigDivSmall(Ether, perOlivo), decOut.value)
          /\ BigLe(decOut.value, Olivo(max \div perOlivo))

\* C34: every management payload decoder accepts exactly the payloads of the
\* required length whose decoded value lies within its bounds, and returns
\* that value: block period 1..60, tx rate and off-session rate 1..100 from
\* one byte; min tx amount N x 0.001 Olivo within [0.001, 100] Olivo and
\* off-session max N x 0.0001 Olivo within [0.0001, 10000] Olivo from eight
\* bytes; the timezone offset as a signed 32-bit big-endian integer within
\* -86400..86400 from four bytes; the gas limit as byte x 1,000,000.
C34_Decoders ==
    /\ decOut.fn = "DecodeBlockPeriod" => DecodesByte(1, 60)
    /\ decOut.fn = "DecodeTxRateLimit" => DecodesByte(1, 100)
    /\ decOut.fn = "DecodeOffSessionTxRate" => DecodesByte(1, 100)
    /\ decOut.fn = "DecodeMinTxAmount" => DecodesAmount(100000, 1000)
    /\ decOut.fn = "DecodeOffSessionMaxPerTx" =>
          DecodesAmount(100000000, 10000)
    /\ decOut.fn = "DecodeSessionTzOffset" =>
          /\ decOut.ok <=> (Len(decData) = 4
                              /\ OffsetOf(decData) \in -86400 .. 86400)
          /\ decOut.ok => decOut.value = OffsetOf(decData)
    /\ decOut.fn = "DecodeGasLimit" =>
          /\ decOut.ok <=> Len(decData) = 1
          /\ decOut.ok => decOut.value = decData[1] * 1000000

C34_Witness ==
    /\ decOut.fn = "DecodeSessionTzOffset"
    /\ decOut.ok
    /\ decOut.value = -86400

(***************************************************************************)
(* Dataset builds in progress.                                             *)
(***************************************************************************)
\* The goroutines that found epoch neither in memory nor on disk and are
\* running buildDataset for it; Build is the end of their build.
Building(epoch) ==
    { call \in BagToSet(calls) : call.pc = "build" /\ call.epoch = epoch }

BuildsInProgress(epoch) ==
    LET RECURSIVE Sum(_)
        Sum(S) == IF S = { } THEN 0
                  ELSE LET c == CHOOSE c \in S : TRUE
                       IN  CopiesIn(c, calls) + Sum(S \ { c })
    IN  Sum(Building(epoch))

\* C35: at any time at most one build of a given epoch's dataset is in
\* progress, whether the builders are dataset(e) callers or the background
\* prefetch of e.
C35_OneBuildPerEpoch == \A epoch \in Epochs : BuildsInProgress(epoch) <= 1

(***************************************************************************)
(* CalcDifficulty against the child timestamp.                             *)
(***************************************************************************)
\* The difficulty of the recorded call is not above the one any earlier
\* child of the same parent gets.
NotAboveEarlier ==
    \A gap \in Gaps :
        gap <= Gap =>
            BigLe(calc.result, CalcDifficulty(parent.time + gap, parent))

\* C36: for a fixed parent, block period and fork rule set, CalcDifficulty is
\* non-increasing in the child timestamp, in particular across the gap-drop
\* threshold in the post-original-fork branch.
C36_NonIncreasing == calc.called => NotAboveEarlier

(***************************************************************************)
(* Mirror specification: SetX writes a parameter into the slot of a state  *)
(* and into the process-wide mirror; LoadX reads the slot of a state into  *)
(* the mirror.                                                             *)
(***************************************************************************)
\* common.BigToHash(new(big.Int).SetUint64(uint64(uint32(offset)))): the
\* offset as an unsigned 32-bit word.
TwoTo32 == BigMulSmall(FromNat(65536), 65536)
TwoTo31 == BigMulSmall(FromNat(65536), 32768)

Uint32OfInt32(offset) ==
    IF offset >= 0 THEN FromNat(offset)
    ELSE BigSub(TwoTo32, FromNat(0 - offset))

\* int32(stored.Uint64()) for a stored word below 2^32.
Int32OfUint32(stored) ==
    IF BigLt(stored, TwoTo31) THEN ToNat(stored)
    ELSE 0 - ToNat(BigSub(TwoTo32, stored))

\* What SetX leaves in the slot.
SlotOf(x, value) ==
    CASE x \in { "BlockPeriod", "TxRateLimit", "OffSessionTxRate" } ->
             FromNat(value)
      [] x \in { "MinTxAmount", "OffSessionMaxPerTx" } -> value
      [] x = "SessionTzOffset" -> Uint32OfInt32(value)

\* LoadX: the mirror after the load, from the slot and the mirror before.
LoadBlockPeriod(stored, current) ==
    IF ToNat(stored) # 0 THEN ToNat(stored) ELSE current

LoadMinTxAmount(stored, current) ==
    IF ~BigIsZero(stored) THEN stored ELSE current

LoadTxRateLimit(stored, current) ==
    IF ~BigIsZero(stored) THEN ToNat(stored) ELSE current

LoadOffSessionTxRate(stored, current) ==
    IF ~BigIsZero(stored) THEN ToNat(stored) ELSE current

LoadOffSessionMaxPerTx(stored, current) ==
    IF ~BigIsZero(stored) THEN stored ELSE current

LoadSessionTzOffset(stored, current) ==
    IF ~BigIsZero(stored) THEN Int32OfUint32(stored) ELSE current

LoadOf(x, stored, current) ==
    CASE x = "BlockPeriod" -> LoadBlockPeriod(stored, current)
      [] x = "MinTxAmount" -> LoadMinTxAmount(stored, current)
      [] x = "TxRateLimit" -> LoadTxRateLimit(stored, current)
      [] x = "OffSessionTxRate" -> LoadOffSessionTxRate(stored, current)
      [] x = "OffSessionMaxPerTx" -> LoadOffSessionMaxPerTx(stored, current)
      [] x = "SessionTzOffset" -> LoadSessionTzOffset(stored, current)

\* The values the decoders admit, at their bounds.
Admissible(x) ==
    CASE x = "BlockPeriod" -> { 1, 60 }
      [] x = "MinTxAmount" -> { MinTxAmountMin, MinTxAmountMax }
      [] x = "TxRateLimit" -> { TxRateLimitMin, TxRateLimitMax }
      [] x = "OffSessionTxRate" -> { OffSessionTxRateMin, OffSessionTxRateMax }
      [] x = "OffSessionMaxPerTx" ->
             { OffSessionMaxPerTxMin, OffSessionMaxPerTxMax }
      [] x = "SessionTzOffset" -> { -86400, 0, 3600 }

MirrorInit ==
    /\ pStore = EmptySlots
    /\ pMirror = DefaultMirror
    /\ pWritten = NothingWritten
    /\ pEpoch = [ st \in StateDBs |-> 0 ]
    /\ pLast = NoLoad
    /\ pEvents = 0
    /\ DiffIdle /\ SupplyIdle /\ SealIdle /\ ImportIdle /\ VerifyIdle
    /\ DecodeIdle /\ RemoteIdle /\ HoldingIdle /\ EconomyIdle /\ DividendIdle
    /\ AdmissionIdle /\ BudgetIdle /\ DatasetIdle /\ RewardIdle

\* SetX(st, value); the two rate setters also start a new usage epoch.
SetParam(st, x, value) ==
    /\ pEvents < MaxMirrorEvents
    /\ pStore' = [ pStore EXCEPT ![st][x] = SlotOf(x, value) ]
    /\ pMirror' = [ pMirror EXCEPT ![x] = value ]
    /\ pWritten' = [ pWritten EXCEPT ![st][x] =
                       [ set |-> TRUE, value |-> value ] ]
    /\ pEpoch' = IF x \in { "TxRateLimit", "OffSessionTxRate" }
                 THEN [ pEpoch EXCEPT ![st] = @ + 1 ] ELSE pEpoch
    /\ pEvents' = pEvents + 1
    /\ UNCHANGED pLast
    /\ UNCHANGED notMirrorVars

\* LoadX(st)
LoadParam(st, x) ==
    /\ pEvents < MaxMirrorEvents
    /\ pMirror' = [ pMirror EXCEPT ![x] = LoadOf(x, pStore[st][x], @) ]
    /\ pLast' = [ op |-> "load", st |-> st, x |-> x, seq |-> pEvents + 1 ]
    /\ pEvents' = pEvents + 1
    /\ UNCHANGED << pStore, pWritten, pEpoch >>
    /\ UNCHANGED notMirrorVars

MirrorNext ==
    \/ \E st \in StateDBs, x \in RuntimeParams :
          \E value \in Admissible(x) : SetParam(st, x, value)
    \/ \E st \in StateDBs, x \in RuntimeParams : LoadParam(st, x)

SpecMirror == MirrorInit /\ [][MirrorNext]_vars

\* The parameter of the last load was written in the state it was loaded
\* from, and nothing has happened since the load.
LoadedWritten ==
    /\ pLast.op = "load"
    /\ pLast.seq = pEvents
    /\ pWritten[pLast.st][pLast.x].set

\* C39: after LoadX(state) the process-wide mirror equals the value last
\* written into that state by SetX, for every admissible value, a timezone
\* offset of 0 and negative offsets included, whatever the mirror held
\* before the load.
C39_MirrorIsWritten ==
    LoadedWritten => pMirror[pLast.x] = pWritten[pLast.st][pLast.x].value

(***************************************************************************)
(* Rejected dividend claims.                                               *)
(***************************************************************************)
ClaimRejected == divLast' # divLast /\ divLast'.op = "claim" /\ ~divLast'.ok

\* C40: a dividend claim that is rejected has no effect: balance, held
\* amount, holding time, queue, claimed-round marker and the supply counters
\* are the same as before the call.
C40_RejectedClaimNoEffect ==
    [][ ClaimRejected =>
          /\ divLedger'.balance = divLedger.balance
          /\ divLedger'.holding = divLedger.holding
          /\ divLedger'.claimedRound = divLedger.claimedRound
          /\ divMinted' = divMinted
          /\ divDividends' = divDividends ]_vars

====
